---- MODULE Spec2Model ----
(***************************************************************************)
(* c9watch: the SDK bridge (src-tauri/src/bridge.rs), the session          *)
(* ownership registry (src-tauri/src/pty_writer.rs) and the WebSocket      *)
(* gateway (src-tauri/src/web_server.rs) as one state machine.             *)
(*                                                                         *)
(* A task is one tokio task that calls into the bridge: a WebSocket        *)
(* connection's handle_socket loop, or any other holder of the             *)
(* SdkBridgeHandle calling resume_session / send_message / close_session.  *)
(* The subprocess (the Node.js bridge) and the native processes are the    *)
(* environment: their steps are nondeterministic.                          *)
(***************************************************************************)
EXTENDS Integers, Sequences, FiniteSets, TLC

\* ── Bounds of the model ──────────────────────────────────────────────────
NumTasks == 2      \* concurrent callers of the bridge / gateway connections
MaxIds == 2        \* request ids (uuids) generated over a run
StdinCap == 1      \* command lines the subprocess's stdin pipe holds unread
StdoutCap == 1     \* lines the subprocess's stdout pipe holds unread

NumSessions == 2   \* session ids clients name
MaxPid == 1        \* native process ids clients name (0 = no pid)
MaxFrames == 3     \* text frames the gateway receives over a run

FeedCap == 1       \* messages a broadcast channel retains (bridge.rs 77: 256)
MaxPub == 2        \* messages published on the three feeds over a run
MaxTexts == 2      \* text frames the per-connection loops read over a run

MaxEntries == 3    \* entries in the tail the status functions are given
MaxItems == 3      \* content items of an assistant message
MaxNow == 1        \* seconds the clock advances over a run

Tasks == 1..NumTasks
Sessions == 1..NumSessions
Pids == 1..MaxPid
Paths == {"pathA", "pathB"}
Ids == 1..MaxIds
\* Every spawn happens inside a distinct call: at most one generation per id.
Gens == 1..MaxIds

\* An id no command ever carried (uuids are never guessed by the subprocess).
UnknownId == 0

None == "None"

\* WsState.auth_token and what a caller may put in the `token` query parameter
\* (None: no parameter).
AuthToken == "secret"
Tokens == {AuthToken, "secre", None}

\* WsState.sessions_tx, WsState.notifications_tx and SdkBridge.event_tx.
Feeds == {"sessions", "notifications", "bridge"}
\* The empty oneshot: no AckResponse has been sent through it.
NoAck == [success |-> FALSE, error |-> "NoAck"]
\* No sendInput has been forwarded.
NoFwd == [done |-> FALSE, cwd |-> None, managed |-> FALSE, unstopped |-> {}]
\* Nothing has been sent on the socket.
NoOut == [type |-> "none", feed |-> None]
\* No ClientMsg is being handled.
NoFrame == [type |-> "none", pid |-> 0, sid |-> 0, path |-> None]

\* AckResponse { success, error }: bridge.rs 42-46
AckResponse == [success : BOOLEAN, error : {None, "boom"}]

\* serde_json::to_string(&cmd) + "\n" (bridge.rs 237): one line per command. The
\* bridge reads nothing of a command but its id, so the line is modelled by it.
EncodeCommand(i) == [id |-> i]

\* BridgeMessage::Ack as a stdout line.
AckLine(i, a) == [type |-> "ack", id |-> i, success |-> a.success, error |-> a.error]

VARIABLES
    \* BridgeInner (bridge.rs 33-40); 0 stands for Option::None
    child,            \* inner.child: generation of the stored Child handle
    stdin,            \* inner.stdin: generation whose ChildStdin is stored
    reader_running,   \* inner.reader_running
    pending,          \* keys of inner.pending (each maps to its own oneshot tx)
    lock,             \* task holding the `inner` mutex across an await, 0 = free
    \* oneshot channels, one per request id
    ackbox,           \* value sent through the id's oneshot, NoAck while empty
    \* operating system
    gen,              \* processes spawned so far
    alive,            \* generations whose process has not exited
    inbuf,            \* per generation: lines in its stdin pipe, unread
    recvd,            \* per generation: ids of the lines it has read
    outbuf,           \* per generation: lines in its stdout pipe, unread
    readers,          \* generations whose reader task is alive
    \* tasks
    pc, id, res, nextId,
    \* history
    wrote,            \* per id: the generation whose stdin its line was written to
    acked,            \* per id: the first ack the reader task read while its caller waits
    overtaken,        \* ids in flight when a later id's waiter was resolved
    \* gateway and registry
    registry,         \* session_map: session id -> project path, None = no entry
    takenOver,        \* per session: the path of the latest take_over_session call
    frame,            \* per task: the ClientMsg its handle_message is handling
    stopAsked,        \* pids actions::stop_session was called with
    settled,          \* pids whose stop was followed by a completed settle sleep
    named,            \* per session: the nonzero pids clients named for it
    fwd,              \* per task: what held when its sendInput was forwarded
    frames,           \* frames received so far
    \* connections (ws_handler, handle_socket) and the broadcast channels
    conn,             \* per task: "open" while its handle_socket loop runs
    tok,              \* per task: the token of its latest connection attempt
    http,             \* per task: the status ws_handler answered that attempt with
    published,        \* per feed: messages sent on the channel so far
    cursor,           \* per task and feed: messages its receiver is past
    disabled,         \* per task: branches disabled in the current select! call
    out,              \* per task: the latest frame sent on its socket
    taken,            \* per task: text frames read from its socket
    answered,         \* per task: response frames sent on its socket
    subAt,            \* per task and feed: messages sent before it subscribed
    got,              \* per task and feed: the latest message relayed to it
    \* history of the call or frame a task is handling
    spawned,          \* per task: the generation its ensure_running spawned, 0 if none
    sawFailure,       \* per task: another call failed while this one was unresolved
    trace,            \* per task: what its handle_message has done, in order
    \* session status engine (session/status.rs)
    entries,          \* the entry tail the status functions are called with
    checker,          \* PERMISSION_CHECKER: the invocations the settings auto-approve
    now,              \* Utc::now(), in seconds
    status,           \* what the latest determine_status call returned
    context_status,   \* what the latest determine_status_with_context call returned
    recency,          \* history: what is_entry_recent returned to the calls so far
    \* the bridge's guards and its stdin pipe, step by step (bridge.rs 224-246)
    plock,            \* holder of the `pending` mutex: 0, a task, or -g for reader g
    wire              \* per generation: the bytes its stdin pipe has taken, in order

bridgeVars == <<child, stdin, reader_running, pending, lock, ackbox, gen, alive,
                inbuf, recvd, outbuf, readers, wrote, acked, overtaken>>
taskVars == <<pc, id, res, nextId>>
gwVars == <<registry, takenOver, frame, stopAsked, settled, named, fwd, frames>>
sockVars == <<conn, tok, http, published, cursor, disabled, out, taken, answered,
              subAt, got>>
statusVars == <<entries, checker, now, status, context_status, recency>>
guardVars == <<plock, wire>>
vars == <<bridgeVars, taskVars, gwVars, sockVars, spawned, sawFailure, trace, statusVars,
          guardVars>>

\* SdkBridge::new (bridge.rs 76-87): nothing spawned, empty table.
InitServices ==
    /\ child = 0 /\ stdin = 0 /\ reader_running = FALSE
    /\ pending = {} /\ lock = 0
    /\ ackbox = [i \in Ids |-> NoAck]
    /\ gen = 0 /\ alive = {}
    /\ inbuf = [g \in Gens |-> <<>>]
    /\ recvd = [g \in Gens |-> {}]
    /\ outbuf = [g \in Gens |-> <<>>]
    /\ readers = {}
    /\ pc = [t \in Tasks |-> "idle"]
    /\ id = [t \in Tasks |-> 0]
    /\ res = [t \in Tasks |-> None]
    /\ nextId = 1
    /\ wrote = [i \in Ids |-> 0]
    /\ acked = [i \in Ids |-> NoAck]
    /\ overtaken = {}
    /\ registry = [s \in Sessions |-> None]
    /\ takenOver = [s \in Sessions |-> None]
    /\ frame = [t \in Tasks |-> NoFrame]
    /\ stopAsked = {} /\ settled = {}
    /\ named = [s \in Sessions |-> {}]
    /\ fwd = [t \in Tasks |-> NoFwd]
    /\ frames = 0
    /\ conn = [t \in Tasks |-> "closed"]
    /\ tok = [t \in Tasks |-> "NoAttempt"]
    /\ http = [t \in Tasks |-> None]
    /\ published = [f \in Feeds |-> 0]
    /\ cursor = [t \in Tasks |-> [f \in Feeds |-> 0]]
    /\ disabled = [t \in Tasks |-> {}]
    /\ out = [t \in Tasks |-> NoOut]
    /\ taken = [t \in Tasks |-> 0]
    /\ answered = [t \in Tasks |-> 0]
    /\ subAt = [t \in Tasks |-> [f \in Feeds |-> 0]]
    /\ got = [t \in Tasks |-> [f \in Feeds |-> 0]]
    /\ spawned = [t \in Tasks |-> 0]
    /\ sawFailure = [t \in Tasks |-> FALSE]
    /\ trace = [t \in Tasks |-> <<>>]
    /\ plock = 0
    /\ wire = [g \in Gens |-> <<>>]

\* No transcript has been read and neither status function has been called.
InitStatusIdle ==
    /\ entries = <<>> /\ checker = {} /\ now = 0
    /\ status = None /\ context_status = None /\ recency = {}

Init == InitServices /\ InitStatusIdle

\* ── Bridge: send_command and ensure_running ──────────────────────────────

\* The caller's oneshot receiver exists from `oneshot::channel()` (bridge.rs 222)
\* until send_command returns.
LiveWaiter(i) ==
    \E t \in Tasks : id[t] = i /\ pc[t] \in {"insert", "insert_inner", "insert_table", "write",
                                            "writing", "writing_rest", "await"}

\* AckResult with the success flag ignored whenever an error text is present.
AckResult_ErrorFirst(a) ==
    IF a.error # None THEN "Err:" \o a.error
    ELSE IF a.success THEN "Ok" ELSE "Err:Unknown bridge error"

\* bridge.rs 254-258: the caller's result for a received ack.
AckResult(a) ==
    IF a.success THEN "Ok"
    ELSE IF a.error = None THEN "Err:Unknown bridge error" ELSE "Err:" \o a.error

\* bridge.rs 249-252: the wait ends without an ack: the 30 s timeout elapsed
\* (the sender is still in the table) or the sender was dropped unsent.
WaitFailure(i) == IF i \in pending THEN "Err:Bridge command timed out (30s)"
                  ELSE "Err:Bridge ack channel dropped"

\* A call that has begun and whose oneshot holds no ack yet.
InFlight(u) == /\ pc[u] \in {"ensure", "insert", "insert_inner", "insert_table", "write",
                             "writing", "writing_rest", "await"}
               /\ ackbox[id[u]] = NoAck

\* sawFailure once task t's call has failed.
SawFailure(t) == [u \in Tasks |-> sawFailure[u] \/ (u # t /\ InFlight(u))]

\* resume_session / send_message / close_session (bridge.rs 262-297): a fresh
\* uuid, then send_command up to its first await.
StartCommand(t) ==
    /\ nextId <= MaxIds
    /\ id' = [id EXCEPT ![t] = nextId]
    /\ nextId' = nextId + 1
    /\ res' = [res EXCEPT ![t] = None]
    /\ pc' = [pc EXCEPT ![t] = "ensure"]

\* send_command has returned: its receiver and its result are dropped, and the
\* history kept about the call with them.
DropCall(t) ==
    /\ id' = [id EXCEPT ![t] = 0]
    /\ res' = [res EXCEPT ![t] = None]
    /\ ackbox' = IF id[t] \in Ids THEN [ackbox EXCEPT ![id[t]] = NoAck] ELSE ackbox
    /\ acked' = IF id[t] \in Ids THEN [acked EXCEPT ![id[t]] = NoAck] ELSE acked
    /\ wrote' = IF id[t] \in Ids THEN [wrote EXCEPT ![id[t]] = 0] ELSE wrote
    /\ overtaken' = overtaken \ {id[t]}
    /\ spawned' = [spawned EXCEPT ![t] = 0]
    /\ sawFailure' = [sawFailure EXCEPT ![t] = FALSE]

BeginCall(t) ==
    /\ pc[t] = "idle"
    /\ StartCommand(t)
    /\ UNCHANGED <<statusVars, guardVars, sockVars, sawFailure, spawned, trace, bridgeVars, gwVars>>

\* ensure_running, child alive (bridge.rs 96-108): try_wait gives Ok(None).
EnsureAlive(t) ==
    /\ pc[t] = "ensure" /\ lock = 0
    /\ child # 0 /\ child \in alive
    /\ pc' = [pc EXCEPT ![t] = "insert"]
    /\ UNCHANGED <<statusVars, guardVars, sockVars, sawFailure, spawned, trace, bridgeVars, id, res, nextId, gwVars>>

\* ReaderFlagAfterProbe with `inner.reader_running = false` forgotten: the flag
\* outlives the process whose reader set it.
ReaderFlagAfterProbe_Kept == reader_running

\* inner.reader_running after the liveness probe (bridge.rs 99-116): reset
\* only when a stored child was found exited.
ReaderFlagAfterProbe == IF child # 0 THEN FALSE ELSE reader_running

\* EnsureSpawn with `inner.stdin = Some(stdin)` forgotten: the stored handle stays
\* what the probe left.
EnsureSpawn_StaleStdin(t) ==
    /\ pc[t] = "ensure" /\ lock = 0
    /\ child = 0 \/ child \notin alive
    /\ gen' = gen + 1
    /\ alive' = alive \cup {gen + 1}
    /\ child' = gen + 1
    /\ stdin' = IF child # 0 THEN 0 ELSE stdin
    /\ reader_running' = TRUE
    /\ readers' = IF ReaderFlagAfterProbe THEN readers ELSE readers \cup {gen + 1}
    /\ spawned' = [spawned EXCEPT ![t] = gen + 1]
    /\ pc' = [pc EXCEPT ![t] = "insert"]
    /\ UNCHANGED <<statusVars, guardVars, sockVars, sawFailure, trace, pending, lock, ackbox, inbuf, recvd, outbuf, wrote, acked,
                   overtaken, id, res, nextId, gwVars>>

\* EnsureSpawn without the liveness probe under the same hold of the guard: a
\* caller that saw no process earlier spawns although one is held and running.
EnsureSpawn_NoProbe(t) ==
    /\ pc[t] = "ensure" /\ lock = 0
    /\ gen' = gen + 1
    /\ alive' = alive \cup {gen + 1}
    /\ child' = gen + 1
    /\ stdin' = gen + 1
    /\ reader_running' = TRUE
    /\ readers' = IF ReaderFlagAfterProbe THEN readers ELSE readers \cup {gen + 1}
    /\ spawned' = [spawned EXCEPT ![t] = gen + 1]
    /\ pc' = [pc EXCEPT ![t] = "insert"]
    /\ UNCHANGED <<statusVars, guardVars, sockVars, sawFailure, trace, pending, lock, ackbox, inbuf, recvd, outbuf, wrote, acked,
                   overtaken, id, res, nextId, gwVars>>

\* ensure_running, no child or child exited, spawn succeeds (bridge.rs 99-210).
EnsureSpawn(t) ==
    /\ pc[t] = "ensure" /\ lock = 0
    /\ child = 0 \/ child \notin alive
    /\ gen' = gen + 1
    /\ alive' = alive \cup {gen + 1}
    /\ child' = gen + 1
    /\ stdin' = gen + 1
    /\ reader_running' = TRUE
    /\ readers' = IF ReaderFlagAfterProbe THEN readers ELSE readers \cup {gen + 1}
    /\ spawned' = [spawned EXCEPT ![t] = gen + 1]
    /\ pc' = [pc EXCEPT ![t] = "insert"]
    /\ UNCHANGED <<statusVars, guardVars, sockVars, sawFailure, trace, pending, lock, ackbox, inbuf, recvd, outbuf, wrote, acked,
                   overtaken, id, res, nextId, gwVars>>

\* ensure_running, no child or child exited, the spawn fails (bridge.rs 119-138):
\* find_bridge_script, Command::spawn or a handle capture returns Err.
EnsureSpawnFails(t) ==
    /\ pc[t] = "ensure" /\ lock = 0
    /\ child = 0 \/ child \notin alive
    /\ child' = 0
    /\ stdin' = IF child # 0 THEN 0 ELSE stdin
    /\ reader_running' = ReaderFlagAfterProbe
    /\ res' = [res EXCEPT ![t] = "Err:Failed to spawn bridge"]
    /\ pc' = [pc EXCEPT ![t] = "ret"]
    /\ sawFailure' = SawFailure(t)
    /\ UNCHANGED <<statusVars, guardVars, sockVars, spawned, trace, pending, lock, ackbox, gen, alive, inbuf, recvd, outbuf,
                   readers, wrote, acked, overtaken, id, nextId, gwVars>>

\* InsertPending with the insert left to after the write: the line goes out
\* with no waiter registered.
InsertPending_Late(t) ==
    /\ pc[t] = "insert" /\ lock = 0
    /\ pc' = [pc EXCEPT ![t] = "write"]
    /\ UNCHANGED <<statusVars, guardVars, sockVars, sawFailure, spawned, trace, bridgeVars, id, res, nextId, gwVars>>

\* bridge.rs 222-228: pending.insert(id, tx) under both guards.
InsertPending(t) ==
    /\ pc[t] = "insert" /\ lock = 0
    /\ pending' = pending \cup {id[t]}
    /\ pc' = [pc EXCEPT ![t] = "write"]
    /\ UNCHANGED <<statusVars, guardVars, sockVars, sawFailure, spawned, trace, child, stdin, reader_running, lock, ackbox, gen, alive, inbuf, recvd,
                   outbuf, readers, wrote, acked, overtaken, id, res, nextId,
                   gwVars>>

\* WriteLock that does not wait for the guard: the caller goes on to write
\* while another caller is inside its own write.
WriteLock_NoWait(t) ==
    /\ pc[t] = "write"
    /\ IF stdin = 0
       THEN /\ res' = [res EXCEPT ![t] = "Err:Bridge stdin not available"]
            /\ pc' = [pc EXCEPT ![t] = "ret"]
            /\ lock' = lock
            /\ sawFailure' = SawFailure(t)
       ELSE /\ pc' = [pc EXCEPT ![t] = "writing"]
            /\ lock' = t
            /\ res' = res
            /\ sawFailure' = sawFailure
    /\ UNCHANGED <<statusVars, guardVars, sockVars, spawned, trace, child, stdin, reader_running, pending, ackbox, gen, alive, inbuf, recvd,
                   outbuf, readers, wrote, acked, overtaken, id, nextId, gwVars>>

\* bridge.rs 232-236: take the guard; no stdin handle is an error.
WriteLock(t) ==
    /\ pc[t] = "write" /\ lock = 0
    /\ IF stdin = 0
       THEN /\ res' = [res EXCEPT ![t] = "Err:Bridge stdin not available"]
            /\ pc' = [pc EXCEPT ![t] = "ret"]
            /\ lock' = lock
            /\ sawFailure' = SawFailure(t)
       ELSE /\ pc' = [pc EXCEPT ![t] = "writing"]
            /\ lock' = t
            /\ res' = res
            /\ sawFailure' = sawFailure
    /\ UNCHANGED <<statusVars, guardVars, sockVars, spawned, trace, child, stdin, reader_running, pending, ackbox, gen, alive, inbuf, recvd,
                   outbuf, readers, wrote, acked, overtaken, id, nextId, gwVars>>

\* bridge.rs 237-246: write_all + flush complete once the pipe takes the line.
WriteLine(t) ==
    /\ pc[t] = "writing" /\ lock = t
    /\ stdin \in alive
    /\ Len(inbuf[stdin]) < StdinCap
    /\ inbuf' = [inbuf EXCEPT ![stdin] = Append(@, EncodeCommand(id[t]))]
    /\ wrote' = [wrote EXCEPT ![id[t]] = stdin]
    /\ lock' = 0
    /\ pc' = [pc EXCEPT ![t] = "await"]
    /\ UNCHANGED <<statusVars, guardVars, sockVars, sawFailure, spawned, trace, child, stdin, reader_running, pending, ackbox, gen, alive, recvd,
                   outbuf, readers, acked, overtaken, id, res, nextId, gwVars>>

\* WriteFails that gives up every waiter of the table along with its own.
WriteFails_DropAll(t) ==
    /\ pc[t] = "writing" /\ lock = t
    /\ stdin \notin alive
    /\ res' = [res EXCEPT ![t] = "Err:Failed to write to bridge"]
    /\ pending' = {}
    /\ lock' = 0
    /\ pc' = [pc EXCEPT ![t] = "ret"]
    /\ sawFailure' = SawFailure(t)
    /\ UNCHANGED <<statusVars, guardVars, sockVars, spawned, trace, child, stdin, reader_running, ackbox, gen, alive, inbuf, recvd,
                   outbuf, readers, wrote, acked, overtaken, id, nextId, gwVars>>

\* bridge.rs 238-245: the pipe's read end is closed (the process exited):
\* write_all / flush return Err.
WriteFails(t) ==
    /\ pc[t] = "writing" /\ lock = t
    /\ stdin \notin alive
    /\ res' = [res EXCEPT ![t] = "Err:Failed to write to bridge"]
    /\ lock' = 0
    /\ pc' = [pc EXCEPT ![t] = "ret"]
    /\ sawFailure' = SawFailure(t)
    /\ UNCHANGED <<statusVars, guardVars, sockVars, spawned, trace, child, stdin, reader_running, pending, ackbox, gen, alive, inbuf, recvd,
                   outbuf, readers, wrote, acked, overtaken, id, nextId, gwVars>>

\* bridge.rs 249-258: the oneshot yields the ack.
AwaitAck(t) ==
    /\ pc[t] = "await"
    /\ ackbox[id[t]] # NoAck
    /\ res' = [res EXCEPT ![t] = AckResult(ackbox[id[t]])]
    /\ pc' = [pc EXCEPT ![t] = "ret"]
    /\ sawFailure' = IF ackbox[id[t]].success THEN sawFailure ELSE SawFailure(t)
    /\ UNCHANGED <<statusVars, guardVars, sockVars, spawned, trace, bridgeVars, id, nextId, gwVars>>

\* AwaitFails that removes the caller's entry from the table on the way out.
AwaitFails_Cleanup(t) ==
    /\ pc[t] = "await"
    /\ ackbox[id[t]] = NoAck
    /\ res' = [res EXCEPT ![t] = WaitFailure(id[t])]
    /\ pending' = pending \ {id[t]}
    /\ pc' = [pc EXCEPT ![t] = "ret"]
    /\ sawFailure' = SawFailure(t)
    /\ UNCHANGED <<statusVars, guardVars, sockVars, spawned, trace, child, stdin, reader_running, lock, ackbox, gen, alive,
                   inbuf, recvd, outbuf, readers, wrote, acked, overtaken, id, nextId,
                   gwVars>>

\* bridge.rs 249-252: the wait ends with no ack.
AwaitFails(t) ==
    /\ pc[t] = "await"
    /\ ackbox[id[t]] = NoAck
    /\ res' = [res EXCEPT ![t] = WaitFailure(id[t])]
    /\ pc' = [pc EXCEPT ![t] = "ret"]
    /\ sawFailure' = SawFailure(t)
    /\ UNCHANGED <<statusVars, guardVars, sockVars, spawned, trace, bridgeVars, id, nextId, gwVars>>

\* The caller of resume_session / send_message / close_session takes the result.
Return(t) ==
    /\ pc[t] = "ret" /\ frame[t] = NoFrame
    /\ pc' = [pc EXCEPT ![t] = "idle"]
    /\ DropCall(t)
    /\ UNCHANGED <<statusVars, guardVars, sockVars, trace, child, stdin, reader_running, pending, lock, gen, alive, inbuf, recvd,
                   outbuf, readers, nextId, gwVars>>

\* ── Bridge: the reader task (bridge.rs 149-207) ──────────────────────────

\* The entry ReadAck_Oldest resolves: the oldest pending one, whatever the ack's id.
OldestPending == IF pending = {} THEN UnknownId
                 ELSE CHOOSE i \in pending : \A j \in pending : i <= j

\* ReadAck resolving waiters in issue order instead of by the ack's id.
ReadAck_Oldest(g) ==
    /\ g \in readers /\ outbuf[g] # <<>>
    /\ LET m == Head(outbuf[g])
           a == [success |-> m.success, error |-> m.error]
           k == OldestPending
       IN /\ m.type = "ack"
          /\ pending' = pending \ {k}
          /\ ackbox' = IF k \in pending /\ LiveWaiter(k)
                       THEN [ackbox EXCEPT ![k] = a] ELSE ackbox
          /\ acked' = IF m.id \in Ids /\ acked[m.id] = NoAck /\ LiveWaiter(m.id)
                      THEN [acked EXCEPT ![m.id] = a] ELSE acked
          /\ overtaken' = overtaken
    /\ outbuf' = [outbuf EXCEPT ![g] = Tail(@)]
    /\ UNCHANGED <<statusVars, guardVars, sockVars, sawFailure, spawned, trace, child, stdin, reader_running, lock, gen, alive, inbuf,
                   recvd, readers, wrote, taskVars, gwVars>>

\* ReadAck with `tx.send(..).unwrap()`: an ack that finds no receiver ends the task.
ReadAck_Unwrap(g) ==
    /\ g \in readers /\ outbuf[g] # <<>>
    /\ LET m == Head(outbuf[g])
           a == [success |-> m.success, error |-> m.error]
       IN /\ m.type = "ack"
          /\ pending' = pending \ {m.id}
          /\ ackbox' = IF m.id \in pending /\ LiveWaiter(m.id)
                       THEN [ackbox EXCEPT ![m.id] = a] ELSE ackbox
          /\ acked' = IF m.id \in Ids /\ acked[m.id] = NoAck /\ LiveWaiter(m.id)
                      THEN [acked EXCEPT ![m.id] = a] ELSE acked
          /\ overtaken' = overtaken
          /\ readers' = IF m.id \in pending /\ ~LiveWaiter(m.id)
                        THEN readers \ {g} ELSE readers
    /\ outbuf' = [outbuf EXCEPT ![g] = Tail(@)]
    /\ UNCHANGED <<statusVars, guardVars, sockVars, sawFailure, spawned, trace, child, stdin, reader_running, lock, gen, alive, inbuf,
                   recvd, wrote, taskVars, gwVars>>

\* bridge.rs 171-176: map.remove(&id), then tx.send (which fails silently when the
\* receiver is gone).
ReadAck(g) ==
    /\ g \in readers /\ outbuf[g] # <<>>
    /\ LET m == Head(outbuf[g])
           a == [success |-> m.success, error |-> m.error]
       IN /\ m.type = "ack"
          /\ pending' = pending \ {m.id}
          /\ ackbox' = IF m.id \in pending /\ LiveWaiter(m.id)
                       THEN [ackbox EXCEPT ![m.id] = a] ELSE ackbox
          /\ acked' = IF m.id \in Ids /\ acked[m.id] = NoAck /\ LiveWaiter(m.id)
                      THEN [acked EXCEPT ![m.id] = a] ELSE acked
          /\ overtaken' = IF m.id \in pending /\ LiveWaiter(m.id)
                          THEN overtaken \cup {i \in pending : i < m.id /\ wrote[i] # 0
                                                                 /\ LiveWaiter(i)}
                          ELSE overtaken
    /\ outbuf' = [outbuf EXCEPT ![g] = Tail(@)]
    /\ UNCHANGED <<statusVars, guardVars, sockVars, sawFailure, spawned, trace, child, stdin, reader_running, lock, gen, alive, inbuf, recvd,
                   readers, wrote, taskVars, gwVars>>

\* bridge.rs 153, 206: next_line gives Ok(None) at end of stream; the task ends.
ReaderExit(g) ==
    /\ g \in readers /\ outbuf[g] = <<>> /\ g \notin alive
    /\ readers' = readers \ {g}
    /\ UNCHANGED <<statusVars, guardVars, sockVars, sawFailure, spawned, trace, child, stdin, reader_running, pending, lock, ackbox, gen, alive, inbuf,
                   recvd, outbuf, wrote, acked, overtaken, taskVars, gwVars>>

\* ── The subprocess (environment) ─────────────────────────────────────────

\* The subprocess reads one command line from its stdin.
ProcRead(g) ==
    /\ g \in alive /\ inbuf[g] # <<>>
    /\ recvd' = [recvd EXCEPT ![g] = @ \cup {Head(inbuf[g]).id}]
    /\ inbuf' = [inbuf EXCEPT ![g] = Tail(@)]
    /\ UNCHANGED <<statusVars, guardVars, sockVars, sawFailure, spawned, trace, child, stdin, reader_running, pending, lock, ackbox, gen, alive, outbuf,
                   readers, wrote, acked, overtaken, taskVars, gwVars>>

\* The subprocess writes an ack line: for a command it has read (any number of
\* times, in any order) or for an id no command carried.
ProcAck(g) ==
    /\ g \in alive /\ Len(outbuf[g]) < StdoutCap
    /\ \E i \in recvd[g] \cup {UnknownId} :
         \E a \in IF i = UnknownId THEN {[success |-> TRUE, error |-> None]}
                                   ELSE AckResponse :
           outbuf' = [outbuf EXCEPT ![g] = Append(@, AckLine(i, a))]
    /\ UNCHANGED <<statusVars, guardVars, sockVars, sawFailure, spawned, trace, child, stdin, reader_running, pending, lock, ackbox, gen, alive, inbuf,
                   recvd, readers, wrote, acked, overtaken, taskVars, gwVars>>

\* The subprocess exits; both pipes close at its end.
ProcExit(g) ==
    /\ g \in alive
    /\ alive' = alive \ {g}
    /\ inbuf' = [inbuf EXCEPT ![g] = <<>>]
    /\ recvd' = [recvd EXCEPT ![g] = {}]
    /\ UNCHANGED <<statusVars, guardVars, sockVars, sawFailure, spawned, trace, child, stdin, reader_running, pending, lock, ackbox, gen,
                   outbuf, readers, wrote, acked, overtaken, taskVars, gwVars>>

BridgeStep ==
    \/ \E t \in Tasks : \/ EnsureAlive(t) \/ EnsureSpawn(t) \/ EnsureSpawnFails(t)
                        \/ InsertPending(t) \/ WriteLock(t) \/ WriteLine(t)
                        \/ WriteFails(t) \/ AwaitAck(t) \/ AwaitFails(t)
    \/ \E g \in Gens : ReadAck(g) \/ ReaderExit(g)

ProcStep == \E g \in Gens : ProcRead(g) \/ ProcAck(g) \/ ProcExit(g)

\* One task's steps inside send_command, and one reader task's steps.
TaskStep(t) == \/ EnsureAlive(t) \/ EnsureSpawn(t) \/ EnsureSpawnFails(t)
               \/ InsertPending(t) \/ WriteLock(t) \/ WriteLine(t)
               \/ WriteFails(t) \/ AwaitAck(t) \/ AwaitFails(t)
ReaderStep(g) == ReadAck(g) \/ ReaderExit(g)

\* Callers use the bridge directly.
NextBridge ==
    \/ \E t \in Tasks : BeginCall(t) \/ Return(t)
    \/ BridgeStep
    \/ ProcStep

SpecBridge == Init /\ [][NextBridge]_vars

\* The tokio runtime polls every ready task, timers fire, and the `inner` mutex is
\* handed out fairly; nothing obliges the subprocess to read, write or exit.
FairBridge ==
    /\ SpecBridge
    /\ \A t \in Tasks : WF_vars(TaskStep(t))
    /\ \A g \in Gens : WF_vars(ReaderStep(g))

\* ── Registry (pty_writer.rs) ─────────────────────────────────────────────

\* take_over_session that keeps the entry a session already has.
take_over_session_KeepFirst(map, sid, path) ==
    IF map[sid] # None THEN map ELSE [map EXCEPT ![sid] = path]

\* take_over_session (pty_writer.rs 19-49): insert, overwriting an entry.
take_over_session(map, sid, path) == [map EXCEPT ![sid] = path]

\* get_project_path (pty_writer.rs 52-60): the entry's path, or the error.
get_project_path(map, sid) ==
    IF map[sid] # None THEN [ok |-> TRUE, val |-> map[sid]]
    ELSE [ok |-> FALSE, val |-> "Session is not managed"]

\* is_managed (pty_writer.rs 63-67)
is_managed(map, sid) == map[sid] # None

\* ── Gateway: connections (web_server.rs 195-282) ─────────────────────────

\* What handle_socket and handle_message leave alone of the registry side.
handlerVars == <<registry, takenOver, frame, stopAsked, settled, named, fwd>>

\* What a connection attempt starts from: nothing sent, nothing read.
FreshSocket(t) ==
    /\ out' = [out EXCEPT ![t] = NoOut]
    /\ taken' = [taken EXCEPT ![t] = 0]
    /\ answered' = [answered EXCEPT ![t] = 0]
    /\ disabled' = [disabled EXCEPT ![t] = {}]
    /\ got' = [got EXCEPT ![t] = [f \in Feeds |-> 0]]

\* ws_handler that also lets a request with no token parameter through.
ws_handler_MissingOk(t) ==
    /\ conn[t] = "closed" /\ pc[t] = "idle"
    /\ \E tk \in Tokens :
         /\ tok' = [tok EXCEPT ![t] = tk]
         /\ IF tk = AuthToken \/ tk = None
            THEN /\ http' = [http EXCEPT ![t] = "101"]
                 /\ conn' = [conn EXCEPT ![t] = "open"]
                 /\ cursor' = [cursor EXCEPT ![t] = published]
                 /\ subAt' = [subAt EXCEPT ![t] = published]
            ELSE /\ http' = [http EXCEPT ![t] = "401"]
                 /\ UNCHANGED <<conn, cursor, subAt>>
    /\ FreshSocket(t)
    /\ UNCHANGED <<statusVars, guardVars, bridgeVars, taskVars, gwVars, published, spawned, sawFailure, trace>>

\* ws_handler whose receivers start at the first message ever sent.
ws_handler_Replay(t) ==
    /\ conn[t] = "closed" /\ pc[t] = "idle"
    /\ \E tk \in Tokens :
         /\ tok' = [tok EXCEPT ![t] = tk]
         /\ IF tk = AuthToken
            THEN /\ http' = [http EXCEPT ![t] = "101"]
                 /\ conn' = [conn EXCEPT ![t] = "open"]
                 /\ cursor' = [cursor EXCEPT ![t] = [f \in Feeds |-> 0]]
                 /\ subAt' = [subAt EXCEPT ![t] = published]
            ELSE /\ http' = [http EXCEPT ![t] = "401"]
                 /\ UNCHANGED <<conn, cursor, subAt>>
    /\ FreshSocket(t)
    /\ UNCHANGED <<statusVars, guardVars, bridgeVars, taskVars, gwVars, published, spawned, sawFailure, trace>>

\* ws_handler (web_server.rs 200-215) and the head of handle_socket (217-223):
\* the upgrade happens only for Some(token) equal to auth_token, and the new
\* connection subscribes to the three channels; anything else is answered 401.
ws_handler(t) ==
    /\ conn[t] = "closed" /\ pc[t] = "idle"
    /\ \E tk \in Tokens :
         /\ tok' = [tok EXCEPT ![t] = tk]
         /\ IF tk = AuthToken
            THEN /\ http' = [http EXCEPT ![t] = "101"]
                 /\ conn' = [conn EXCEPT ![t] = "open"]
                 /\ cursor' = [cursor EXCEPT ![t] = published]
                 /\ subAt' = [subAt EXCEPT ![t] = published]
            ELSE /\ http' = [http EXCEPT ![t] = "401"]
                 /\ UNCHANGED <<conn, cursor, subAt>>
    /\ FreshSocket(t)
    /\ UNCHANGED <<statusVars, guardVars, bridgeVars, taskVars, gwVars, published, spawned, sawFailure, trace>>

\* The loop is left and the receivers are dropped.
CloseSocket(t) ==
    /\ conn' = [conn EXCEPT ![t] = "closed"]
    /\ tok' = [tok EXCEPT ![t] = "NoAttempt"]
    /\ http' = [http EXCEPT ![t] = None]
    /\ cursor' = [cursor EXCEPT ![t] = [f \in Feeds |-> 0]]
    /\ subAt' = [subAt EXCEPT ![t] = [f \in Feeds |-> 0]]
    /\ FreshSocket(t)

\* web_server.rs 248: socket.recv() gives Close or None; the loop breaks.
Disconnect(t) ==
    /\ conn[t] = "open" /\ pc[t] = "idle"
    /\ CloseSocket(t)
    /\ UNCHANGED <<statusVars, guardVars, bridgeVars, taskVars, gwVars, published, spawned, sawFailure, trace>>

\* ── Gateway: handle_message (web_server.rs 286-389) ──────────────────────

ClientFrames(type) ==
    [type : {type}, pid : 0..MaxPid, sid : Sessions, path : Paths]

\* The pids clients have named for each session, with frame m received.
Named(m) == IF m.pid > 0 THEN [named EXCEPT ![m.sid] = @ \cup {m.pid}] ELSE named

\* RecvTakeover with the sleep left out: the handler goes from stop_session
\* straight to the registration.
RecvTakeover_NoSettle(t) ==
    /\ conn[t] = "open" /\ pc[t] = "idle" /\ frames < MaxFrames
    /\ \E m \in ClientFrames("takeoverSession") :
         /\ frame' = [frame EXCEPT ![t] = m]
         /\ named' = Named(m)
         /\ stopAsked' = IF m.pid > 0 THEN stopAsked \cup {m.pid} ELSE stopAsked
         /\ trace' = [trace EXCEPT ![t] = IF m.pid > 0 THEN <<"stop">> ELSE <<>>]
    /\ pc' = [pc EXCEPT ![t] = "tk_register"]
    /\ frames' = frames + 1
    /\ UNCHANGED <<statusVars, guardVars, sockVars, sawFailure, spawned, bridgeVars, id, res, nextId, registry, takenOver, settled, fwd>>

\* web_server.rs 334-342: takeoverSession received; with a pid, stop_session is
\* called and the handler sleeps.
RecvTakeover(t) ==
    /\ conn[t] = "open" /\ pc[t] = "idle" /\ frames < MaxFrames
    /\ \E m \in ClientFrames("takeoverSession") :
         /\ frame' = [frame EXCEPT ![t] = m]
         /\ named' = Named(m)
         /\ IF m.pid > 0
            THEN /\ stopAsked' = stopAsked \cup {m.pid}
                 /\ trace' = [trace EXCEPT ![t] = <<"stop">>]
                 /\ pc' = [pc EXCEPT ![t] = "tk_sleep"]
            ELSE /\ stopAsked' = stopAsked
                 /\ trace' = [trace EXCEPT ![t] = <<>>]
                 /\ pc' = [pc EXCEPT ![t] = "tk_register"]
    /\ frames' = frames + 1
    /\ UNCHANGED <<statusVars, guardVars, sockVars, sawFailure, spawned, bridgeVars, id, res, nextId, registry, takenOver, settled, fwd>>

\* web_server.rs 341: the 500 ms sleep ends.
TakeoverSettle(t) ==
    /\ pc[t] = "tk_sleep"
    /\ settled' = settled \cup {frame[t].pid}
    /\ pc' = [pc EXCEPT ![t] = "tk_register"]
    /\ trace' = [trace EXCEPT ![t] = Append(@, "settle")]
    /\ UNCHANGED <<statusVars, guardVars, sockVars, sawFailure, spawned, bridgeVars, id, res, nextId, registry, takenOver, frame, stopAsked, named,
                   fwd, frames>>

\* TakeoverRegister that refuses a session that is already registered.
TakeoverRegister_Once(t) ==
    /\ pc[t] = "tk_register"
    /\ IF is_managed(registry, frame[t].sid)
       THEN /\ UNCHANGED <<registry, takenOver>>
            /\ res' = [res EXCEPT ![t] = "Err:already managed"]
       ELSE /\ registry' = take_over_session(registry, frame[t].sid, frame[t].path)
            /\ takenOver' = [takenOver EXCEPT ![frame[t].sid] = frame[t].path]
            /\ res' = [res EXCEPT ![t] = "Ok"]
    /\ pc' = [pc EXCEPT ![t] = "ret"]
    /\ trace' = [trace EXCEPT ![t] = Append(@, "register")]
    /\ UNCHANGED <<statusVars, guardVars, sockVars, sawFailure, spawned, bridgeVars, id, nextId, frame, stopAsked, settled, named, fwd,
                   frames>>

\* web_server.rs 343-356: take_over_session on the blocking pool; Ok answers ok.
TakeoverRegister(t) ==
    /\ pc[t] = "tk_register"
    /\ registry' = take_over_session(registry, frame[t].sid, frame[t].path)
    /\ takenOver' = [takenOver EXCEPT ![frame[t].sid] = frame[t].path]
    /\ res' = [res EXCEPT ![t] = "Ok"]
    /\ pc' = [pc EXCEPT ![t] = "ret"]
    /\ trace' = [trace EXCEPT ![t] = Append(@, "register")]
    /\ UNCHANGED <<statusVars, guardVars, sockVars, sawFailure, spawned, bridgeVars, id, nextId, frame, stopAsked, settled, named, fwd,
                   frames>>

\* web_server.rs 359-363: sendInput received; with a pid and an unmanaged
\* session, stop_session is called and the handler sleeps.
RecvSendInput(t) ==
    /\ conn[t] = "open" /\ pc[t] = "idle" /\ frames < MaxFrames
    /\ \E m \in ClientFrames("sendInput") :
         /\ frame' = [frame EXCEPT ![t] = m]
         /\ named' = Named(m)
         /\ IF m.pid > 0 /\ ~is_managed(registry, m.sid)
            THEN /\ stopAsked' = stopAsked \cup {m.pid}
                 /\ trace' = [trace EXCEPT ![t] = <<"stop">>]
                 /\ pc' = [pc EXCEPT ![t] = "si_sleep"]
            ELSE /\ stopAsked' = stopAsked
                 /\ trace' = [trace EXCEPT ![t] = <<>>]
                 /\ pc' = [pc EXCEPT ![t] = "si_forward"]
    /\ frames' = frames + 1
    /\ UNCHANGED <<statusVars, guardVars, sockVars, sawFailure, spawned, bridgeVars, id, res, nextId, registry, takenOver, settled, fwd>>

\* web_server.rs 363: the 500 ms sleep ends.
SendInputSettle(t) ==
    /\ pc[t] = "si_sleep"
    /\ settled' = settled \cup {frame[t].pid}
    /\ pc' = [pc EXCEPT ![t] = "si_register"]
    /\ trace' = [trace EXCEPT ![t] = Append(@, "settle")]
    /\ UNCHANGED <<statusVars, guardVars, sockVars, sawFailure, spawned, bridgeVars, id, res, nextId, registry, takenOver, frame, stopAsked, named,
                   fwd, frames>>

\* SendInputRegister with the registration left out.
SendInputRegister_Skip(t) ==
    /\ pc[t] = "si_register"
    /\ pc' = [pc EXCEPT ![t] = "si_forward"]
    /\ UNCHANGED <<statusVars, guardVars, sockVars, sawFailure, spawned, trace, bridgeVars, id, res, nextId, gwVars>>

\* web_server.rs 364-369: take_over_session on the blocking pool, result ignored.
SendInputRegister(t) ==
    /\ pc[t] = "si_register"
    /\ registry' = take_over_session(registry, frame[t].sid, frame[t].path)
    /\ takenOver' = [takenOver EXCEPT ![frame[t].sid] = frame[t].path]
    /\ pc' = [pc EXCEPT ![t] = "si_forward"]
    /\ trace' = [trace EXCEPT ![t] = Append(@, "register")]
    /\ UNCHANGED <<statusVars, guardVars, sockVars, sawFailure, spawned, bridgeVars, id, res, nextId, frame, stopAsked, settled, named,
                   fwd, frames>>

\* web_server.rs 372: sdk_bridge.send_message(session_id, input, project_path).
Forward(t) ==
    /\ pc[t] = "si_forward"
    /\ pc' = [pc EXCEPT ![t] = "bridge"]
    /\ fwd' = [fwd EXCEPT ![t] = [done |-> TRUE,
                                  cwd |-> frame[t].path,
                                  managed |-> is_managed(registry, frame[t].sid),
                                  unstopped |-> named[frame[t].sid] \ settled]]
    /\ trace' = [trace EXCEPT ![t] = Append(@, "forward")]
    /\ UNCHANGED <<statusVars, guardVars, sockVars, sawFailure, spawned, bridgeVars, id, res, nextId, registry, takenOver, frame, stopAsked, settled, named,
                   frames>>

\* What send_message can return to the gateway (bridge.rs 214-259).
SendMessageResults == {"Ok", "Err:boom", "Err:Bridge command timed out (30s)"}

\* SendMessageReturns that gives the session up when the send fails.
SendMessageReturns_Unregister(t) ==
    /\ pc[t] = "bridge"
    /\ \E r \in SendMessageResults :
         /\ res' = [res EXCEPT ![t] = r]
         /\ registry' = IF r = "Ok" THEN registry
                         ELSE [registry EXCEPT ![frame[t].sid] = None]
    /\ pc' = [pc EXCEPT ![t] = "ret"]
    /\ UNCHANGED <<statusVars, guardVars, sockVars, sawFailure, spawned, trace, bridgeVars, id, nextId, takenOver,
                   frame, stopAsked, settled, named, fwd, frames>>

\* web_server.rs 372-381: send_message returns. The gateway reads nothing of the
\* bridge but this result, and the bridge reads nothing of the gateway, so the
\* call is summarised here by its result; SpecBridge holds the bridge itself.
SendMessageReturns(t) ==
    /\ pc[t] = "bridge"
    /\ \E r \in SendMessageResults : res' = [res EXCEPT ![t] = r]
    /\ pc' = [pc EXCEPT ![t] = "ret"]
    /\ UNCHANGED <<statusVars, guardVars, sockVars, sawFailure, spawned, trace, bridgeVars, id, nextId, gwVars>>

\* web_server.rs 238-241, 351, 373-380: the response frame is sent and the loop
\* waits for the next frame.
Respond(t) ==
    /\ pc[t] = "ret" /\ frame[t] # NoFrame
    /\ pc' = [pc EXCEPT ![t] = "idle"]
    /\ frame' = [frame EXCEPT ![t] = NoFrame]
    /\ fwd' = [fwd EXCEPT ![t] = NoFwd]
    /\ trace' = [trace EXCEPT ![t] = <<>>]
    /\ DropCall(t)
    /\ UNCHANGED <<statusVars, guardVars, sockVars, child, stdin, reader_running, pending, lock, gen, alive, inbuf, recvd,
                   outbuf, readers, nextId, registry, takenOver, stopAsked, settled, named, frames>>

GatewayStep ==
    \E t \in Tasks : \/ RecvTakeover(t) \/ TakeoverSettle(t) \/ TakeoverRegister(t)
                     \/ RecvSendInput(t) \/ SendInputSettle(t) \/ SendInputRegister(t)
                     \/ Forward(t) \/ SendMessageReturns(t) \/ Respond(t)
                     \/ ws_handler(t) \/ Disconnect(t)

\* Clients drive the registry and the bridge through the gateway.
NextGateway == GatewayStep

SpecGateway == Init /\ [][NextGateway]_vars

\* ── Gateway: the per-connection loop and the feeds (web_server.rs 217-282) ─

\* The tags of ClientMsg (web_server.rs 36-91).
CommandTypes == {"getSessions", "getConversation", "stopSession", "openSession",
                 "renameSession", "takeoverSession", "sendInput", "isSessionManaged"}

\* Text frames clients send: a well-formed command of each response shape, text
\* that is not JSON, and JSON whose tag names no command.
ClientTexts == {"getSessions", "sendInput", "isSessionManaged", "garbage", "unknownType"}

\* ServerMsg::Error for a text that does not parse (web_server.rs 234-236); the
\* arms of handle_message give Error with messages of their own.
InvalidReply == "error:Invalid message"

\* serde_json::from_str::<ClientMsg> (web_server.rs 232).
Parse(text) == IF text \in CommandTypes THEN text ELSE "Err"

\* The ServerMsg variants each arm of handle_message can return (286-389).
Results(cmd) ==
    CASE cmd = "getSessions" -> {"sessions", "error"}
      [] cmd = "getConversation" -> {"conversation", "error"}
      [] cmd = "isSessionManaged" -> {"managedStatus"}
      [] OTHER -> {"ok", "error"}

\* FeedFrame with notifications relayed under the poll feed's frame type.
FeedFrame_OneType(f) ==
    CASE f = "sessions" -> "sessionsUpdated"
      [] f = "notifications" -> "sessionsUpdated"
      [] f = "bridge" -> "streamEvent"

\* The frame type a feed's message is relayed under (web_server.rs 253-277); a
\* bridge event is relayed as the reader task encoded it (bridge.rs 181-201).
FeedFrame(f) ==
    CASE f = "sessions" -> "sessionsUpdated"
      [] f = "notifications" -> "notification"
      [] f = "bridge" -> "streamEvent"

\* broadcast::Sender::send: by the polling loop, by the notifier, and by the
\* reader task for a streamEvent / streamEnd line (bridge.rs 177-202).
Publish(f) ==
    /\ published["sessions"] + published["notifications"] + published["bridge"] < MaxPub
    /\ published' = [published EXCEPT ![f] = @ + 1]
    /\ UNCHANGED <<statusVars, guardVars, bridgeVars, taskVars, gwVars, conn, tok, http, cursor, disabled, out,
                   taken, answered, subAt, got, spawned, sawFailure, trace>>

\* SockText that says nothing back when the text does not parse.
SockText_SilentOnError(t) ==
    /\ conn[t] = "open" /\ pc[t] = "idle" /\ frames < MaxTexts
    /\ \E text \in ClientTexts :
         /\ frame' = [frame EXCEPT ![t] = IF Parse(text) = "Err" THEN NoFrame
                        ELSE [type |-> Parse(text), pid |-> 0, sid |-> 0, path |-> None]]
         /\ IF Parse(text) = "Err"
            THEN /\ res' = res
                 /\ pc' = pc
            ELSE /\ res' = res
                 /\ pc' = [pc EXCEPT ![t] = "handling"]
    /\ taken' = [taken EXCEPT ![t] = @ + 1]
    /\ frames' = frames + 1
    /\ UNCHANGED <<statusVars, guardVars, bridgeVars, id, nextId, registry, takenOver, stopAsked, settled, named, fwd,
                   conn, tok, http, published, cursor, disabled, out, answered, subAt,
                   got, spawned, sawFailure, trace>>

\* web_server.rs 228-237: socket.recv() gives a text frame; it parses to a
\* command, which handle_message takes, or it does not, and the response is an
\* error frame.
SockText(t) ==
    /\ conn[t] = "open" /\ pc[t] = "idle" /\ frames < MaxTexts
    /\ \E text \in ClientTexts :
         /\ frame' = [frame EXCEPT ![t] =
                        [type |-> Parse(text), pid |-> 0, sid |-> 0, path |-> None]]
         /\ IF Parse(text) = "Err"
            THEN /\ res' = [res EXCEPT ![t] = InvalidReply]
                 /\ pc' = [pc EXCEPT ![t] = "reply"]
            ELSE /\ res' = res
                 /\ pc' = [pc EXCEPT ![t] = "handling"]
    /\ taken' = [taken EXCEPT ![t] = @ + 1]
    /\ frames' = frames + 1
    /\ UNCHANGED <<statusVars, guardVars, bridgeVars, id, nextId, registry, takenOver, stopAsked, settled, named, fwd,
                   conn, tok, http, published, cursor, disabled, out, answered, subAt,
                   got, spawned, sawFailure, trace>>

\* web_server.rs 233: handle_message returns its ServerMsg. What it does to the
\* registry and the bridge on the way is SpecGateway's and SpecBridge's matter.
HandleMessageReturns(t) ==
    /\ pc[t] = "handling"
    /\ \E r \in Results(frame[t].type) : res' = [res EXCEPT ![t] = r]
    /\ pc' = [pc EXCEPT ![t] = "reply"]
    /\ UNCHANGED <<statusVars, guardVars, bridgeVars, id, nextId, gwVars, sockVars, spawned, sawFailure, trace>>

\* web_server.rs 238-239: the response is sent; the loop goes round.
SendReply(t) ==
    /\ pc[t] = "reply"
    /\ out' = [out EXCEPT ![t] = [type |-> res[t], feed |-> None]]
    /\ answered' = [answered EXCEPT ![t] = @ + 1]
    /\ disabled' = [disabled EXCEPT ![t] = {}]
    /\ frame' = [frame EXCEPT ![t] = NoFrame]
    /\ res' = [res EXCEPT ![t] = None]
    /\ pc' = [pc EXCEPT ![t] = "idle"]
    /\ UNCHANGED <<statusVars, guardVars, bridgeVars, id, nextId, registry, takenOver, stopAsked, settled, named, fwd, frames,
                   conn, tok, http, published, cursor, taken, subAt, got, spawned,
                   sawFailure, trace>>

\* web_server.rs 239-241: the send fails (the peer is gone); the loop breaks.
SendFails(t) ==
    /\ pc[t] = "reply"
    /\ CloseSocket(t)
    /\ frame' = [frame EXCEPT ![t] = NoFrame]
    /\ res' = [res EXCEPT ![t] = None]
    /\ pc' = [pc EXCEPT ![t] = "idle"]
    /\ UNCHANGED <<statusVars, guardVars, bridgeVars, id, nextId, registry, takenOver, stopAsked, settled, named, fwd, frames,
                   published, spawned, sawFailure, trace>>

\* web_server.rs 243-247: a Ping is answered with a Pong; the loop goes round.
SockPing(t) ==
    /\ conn[t] = "open" /\ pc[t] = "idle"
    /\ out' = [out EXCEPT ![t] = [type |-> "pong", feed |-> None]]
    /\ disabled' = [disabled EXCEPT ![t] = {}]
    /\ UNCHANGED <<statusVars, guardVars, bridgeVars, taskVars, gwVars, conn, tok, http, published, cursor, taken,
                   answered, subAt, got, spawned, sawFailure, trace>>

\* Relay that sends the newest message of the channel, whatever the receiver
\* has already been given.
Relay_Newest(t, f) ==
    /\ conn[t] = "open" /\ pc[t] = "idle" /\ f \notin disabled[t]
    /\ cursor[t][f] < published[f]
    /\ published[f] - cursor[t][f] <= FeedCap
    /\ out' = [out EXCEPT ![t] = [type |-> FeedFrame(f), feed |-> f]]
    /\ got' = [got EXCEPT ![t][f] = published[f]]
    /\ cursor' = [cursor EXCEPT ![t][f] = @ + 1]
    /\ disabled' = [disabled EXCEPT ![t] = {}]
    /\ UNCHANGED <<statusVars, guardVars, bridgeVars, taskVars, gwVars, conn, tok, http, published, taken,
                   answered, subAt, spawned, sawFailure, trace>>

\* Relay that runs beside the handler: the feed branch is taken although a
\* command of the connection is still being dispatched.
Relay_DuringDispatch(t, f) ==
    /\ conn[t] = "open" /\ f \notin disabled[t]
    /\ cursor[t][f] < published[f]
    /\ published[f] - cursor[t][f] <= FeedCap
    /\ out' = [out EXCEPT ![t] = [type |-> FeedFrame(f), feed |-> f]]
    /\ got' = [got EXCEPT ![t][f] = cursor[t][f] + 1]
    /\ cursor' = [cursor EXCEPT ![t][f] = @ + 1]
    /\ disabled' = [disabled EXCEPT ![t] = {}]
    /\ UNCHANGED <<statusVars, guardVars, bridgeVars, taskVars, gwVars, conn, tok, http, published, taken,
                   answered, subAt, spawned, sawFailure, trace>>

\* web_server.rs 253-277: a receiver's recv() gives Ok(message): the next message
\* past its cursor, still retained; it is sent as a frame and the loop goes round.
Relay(t, f) ==
    /\ conn[t] = "open" /\ pc[t] = "idle" /\ f \notin disabled[t]
    /\ cursor[t][f] < published[f]
    /\ published[f] - cursor[t][f] <= FeedCap
    /\ out' = [out EXCEPT ![t] = [type |-> FeedFrame(f), feed |-> f]]
    /\ got' = [got EXCEPT ![t][f] = cursor[t][f] + 1]
    /\ cursor' = [cursor EXCEPT ![t][f] = @ + 1]
    /\ disabled' = [disabled EXCEPT ![t] = {}]
    /\ UNCHANGED <<statusVars, guardVars, bridgeVars, taskVars, gwVars, conn, tok, http, published, taken,
                   answered, subAt, spawned, sawFailure, trace>>

\* web_server.rs 253, 263, 273: recv() gives Err(Lagged): the channel no longer
\* retains the next message, the cursor moves to the oldest retained one, and
\* the `Ok(..) =` pattern fails, which disables the branch for the rest of this
\* select! call.
Lagged(t, f) ==
    /\ conn[t] = "open" /\ pc[t] = "idle" /\ f \notin disabled[t]
    /\ published[f] - cursor[t][f] > FeedCap
    /\ cursor' = [cursor EXCEPT ![t][f] = published[f] - FeedCap]
    /\ disabled' = [disabled EXCEPT ![t] = @ \cup {f}]
    /\ UNCHANGED <<statusVars, guardVars, bridgeVars, taskVars, gwVars, conn, tok, http, published, out, taken,
                   answered, subAt, got, spawned, sawFailure, trace>>

SocketStep ==
    \/ \E t \in Tasks : \/ ws_handler(t) \/ Disconnect(t)
                        \/ SockText(t) \/ HandleMessageReturns(t)
                        \/ SendReply(t) \/ SendFails(t) \/ SockPing(t)
    \/ \E t \in Tasks, f \in Feeds : Relay(t, f) \/ Lagged(t, f)

\* Clients connect, send frames and listen; the three producers publish.
NextSocket ==
    \/ SocketStep
    \/ \E f \in Feeds : Publish(f)

SpecSocket == Init /\ [][NextSocket]_vars

\* select! polls its enabled branches in random order, so a branch that stays
\* ready is taken; handle_message is taken to return (whether the bridge call
\* inside it does is FairBridge's question) and its response is sent. Nothing
\* obliges a client to send a frame or a producer to publish.
FairSocket ==
    /\ SpecSocket
    /\ \A t \in Tasks : WF_vars(HandleMessageReturns(t)) /\ WF_vars(SendReply(t))
    /\ \A t \in Tasks, f \in Feeds : WF_vars(Relay(t, f)) /\ WF_vars(Lagged(t, f))

\* Clients that connect and listen: they send no text frame.
NextListen ==
    \/ \E t \in Tasks : ws_handler(t) \/ Disconnect(t) \/ SockPing(t)
    \/ \E t \in Tasks, f \in Feeds : Relay(t, f) \/ Lagged(t, f)
    \/ \E f \in Feeds : Publish(f)

SpecListen == Init /\ [][NextListen]_vars

\* As FairSocket: a select! branch that stays ready is taken.
FairListen ==
    /\ SpecListen
    /\ \A t \in Tasks, f \in Feeds : WF_vars(Relay(t, f)) /\ WF_vars(Lagged(t, f))

\* ── Bridge: every kind of stdout line (bridge.rs 153-204) ────────────────

\* What the subprocess can write on a line besides an ack: the two stream
\* messages, an empty line, text that is not JSON, JSON whose "type" is none
\* of BridgeMessage's, and bytes that are not UTF-8.
StreamTypes == {"streamEvent", "streamEnd"}
OtherLineTypes == StreamTypes \cup {"blank", "notJson", "unknownType", "notUtf8"}
OtherLine(k) == [type |-> k, id |-> UnknownId, success |-> TRUE, error |-> None]

\* lines.next_line() (bridge.rs 153): a String for a line of UTF-8 bytes, Err
\* (InvalidData) for any other line.
next_line(m) == IF m.type = "notUtf8" THEN "Err" ELSE "Ok"

\* line.trim().is_empty() (bridge.rs 154).
is_empty(m) == m.type = "blank"

\* serde_json::from_str::<BridgeMessage> (bridge.rs 158): Ok for the three
\* tagged variants.
from_str(m) == IF m.type \in {"ack"} \cup StreamTypes THEN "Ok" ELSE "Err"

\* The subprocess writes a line that is not an ack.
ProcEmit(g, k) ==
    /\ g \in alive /\ Len(outbuf[g]) < StdoutCap
    /\ k \in StreamTypes => published["bridge"] < MaxPub
    /\ outbuf' = [outbuf EXCEPT ![g] = Append(@, OtherLine(k))]
    /\ UNCHANGED <<statusVars, guardVars, sockVars, sawFailure, spawned, trace, child, stdin, reader_running,
                   pending, lock, ackbox, gen, alive, inbuf, recvd, readers, wrote, acked,
                   overtaken, taskVars, gwVars>>

\* bridge.rs 154-168: a blank line, or a line from_str rejects, is dropped and
\* the loop continues.
ReadSkip(g) ==
    /\ g \in readers /\ outbuf[g] # <<>>
    /\ LET m == Head(outbuf[g])
       IN  /\ next_line(m) = "Ok"
           /\ is_empty(m) \/ from_str(m) = "Err"
    /\ outbuf' = [outbuf EXCEPT ![g] = Tail(@)]
    /\ UNCHANGED <<statusVars, guardVars, sockVars, sawFailure, spawned, trace, child, stdin, reader_running,
                   pending, lock, ackbox, gen, alive, inbuf, recvd, readers, wrote, acked,
                   overtaken, taskVars, gwVars>>

\* bridge.rs 177-202: a stream message is re-encoded and sent on event_tx.
ReadStream(g) ==
    /\ g \in readers /\ outbuf[g] # <<>>
    /\ Head(outbuf[g]).type \in StreamTypes
    /\ published' = [published EXCEPT !["bridge"] = @ + 1]
    /\ outbuf' = [outbuf EXCEPT ![g] = Tail(@)]
    /\ UNCHANGED <<statusVars, guardVars, conn, tok, http, cursor, disabled, out, taken, answered, subAt, got,
                   sawFailure, spawned, trace, child, stdin, reader_running,
                   pending, lock, ackbox, gen, alive, inbuf, recvd, readers, wrote, acked,
                   overtaken, taskVars, gwVars>>

\* bridge.rs 153, 206: next_line gives Err, the `while let Ok(Some(line))`
\* pattern fails and the task ends; nothing touches reader_running.
ReadError(g) ==
    /\ g \in readers /\ outbuf[g] # <<>>
    /\ next_line(Head(outbuf[g])) = "Err"
    /\ readers' = readers \ {g}
    /\ outbuf' = [outbuf EXCEPT ![g] = Tail(@)]
    /\ UNCHANGED <<statusVars, guardVars, sockVars, sawFailure, spawned, trace, child, stdin, reader_running,
                   pending, lock, ackbox, gen, alive, inbuf, recvd, wrote, acked,
                   overtaken, taskVars, gwVars>>

\* One caller of the bridge at a time, and a subprocess that writes any line.
NextReader ==
    \/ \E t \in {1} : BeginCall(t) \/ Return(t)
    \/ BridgeStep
    \/ ProcStep
    \/ \E g \in Gens : ReadSkip(g) \/ ReadStream(g) \/ ReadError(g)
    \/ \E g \in Gens, k \in OtherLineTypes : ProcEmit(g, k)

SpecReader == Init /\ [][NextReader]_vars

\* ── Bridge: the two guards and the stdin pipe, step by step (bridge.rs 224-246) ─

\* The holder name of reader task g in plock.
ReaderOf(g) == 0 - g

\* serde_json::to_string(&cmd) + "\n" (bridge.rs 237) as the pipe takes it: the
\* compact JSON text, in which serde_json escapes every line break of the
\* command's strings, and then the one newline byte.
LineBytes(i) == <<[id |-> i, part |-> "json"], [id |-> i, part |-> "newline"]>>

\* bridge.rs 225: send_command takes the inner guard for the insert.
InsertLock(t) ==
    /\ pc[t] = "insert" /\ lock = 0
    /\ lock' = t
    /\ pc' = [pc EXCEPT ![t] = "insert_inner"]
    /\ UNCHANGED <<statusVars, guardVars, sockVars, sawFailure, spawned, trace, child, stdin,
                   reader_running, pending, ackbox, gen, alive, inbuf, recvd, outbuf, readers,
                   wrote, acked, overtaken, id, res, nextId, gwVars>>

\* bridge.rs 226: holding the inner guard, it takes the pending-table guard.
InsertTableLock(t) ==
    /\ pc[t] = "insert_inner" /\ lock = t /\ plock = 0
    /\ plock' = t
    /\ pc' = [pc EXCEPT ![t] = "insert_table"]
    /\ UNCHANGED <<statusVars, wire, sockVars, sawFailure, spawned, trace, bridgeVars, id, res,
                   nextId, gwVars>>

\* bridge.rs 227-228: the insert; both guards are dropped at the block's end.
InsertPut(t) ==
    /\ pc[t] = "insert_table" /\ lock = t /\ plock = t
    /\ pending' = pending \cup {id[t]}
    /\ plock' = 0
    /\ lock' = 0
    /\ pc' = [pc EXCEPT ![t] = "write"]
    /\ UNCHANGED <<statusVars, wire, sockVars, sawFailure, spawned, trace, child, stdin,
                   reader_running, ackbox, gen, alive, inbuf, recvd, outbuf, readers, wrote,
                   acked, overtaken, id, res, nextId, gwVars>>

\* bridge.rs 238-240: write_all, first part: the pipe takes the JSON text of the
\* line; the caller keeps the inner guard across the await.
WriteHead(t) ==
    /\ pc[t] = "writing" /\ lock = t
    /\ stdin \in alive
    /\ Len(inbuf[stdin]) < StdinCap
    /\ wire' = [wire EXCEPT ![stdin] = Append(@, LineBytes(id[t])[1])]
    /\ pc' = [pc EXCEPT ![t] = "writing_rest"]
    /\ UNCHANGED <<statusVars, plock, sockVars, sawFailure, spawned, trace, bridgeVars, id, res,
                   nextId, gwVars>>

\* bridge.rs 238-246: write_all, the rest, and flush: the pipe takes the newline,
\* the line is the subprocess's to read, and the guard is dropped.
WriteRest(t) ==
    /\ pc[t] = "writing_rest" /\ lock = t
    /\ stdin \in alive
    /\ wire' = [wire EXCEPT ![stdin] = Append(@, LineBytes(id[t])[2])]
    /\ inbuf' = [inbuf EXCEPT ![stdin] = Append(@, EncodeCommand(id[t]))]
    /\ wrote' = [wrote EXCEPT ![id[t]] = stdin]
    /\ lock' = 0
    /\ pc' = [pc EXCEPT ![t] = "await"]
    /\ UNCHANGED <<statusVars, plock, sockVars, sawFailure, spawned, trace, child, stdin,
                   reader_running, pending, ackbox, gen, alive, recvd, outbuf, readers, acked,
                   overtaken, id, res, nextId, gwVars>>

\* bridge.rs 238-245: the process exits in mid-line; write_all / flush return Err.
WriteRestFails(t) ==
    /\ pc[t] = "writing_rest" /\ lock = t
    /\ stdin \notin alive
    /\ res' = [res EXCEPT ![t] = "Err:Failed to write to bridge"]
    /\ lock' = 0
    /\ pc' = [pc EXCEPT ![t] = "ret"]
    /\ sawFailure' = SawFailure(t)
    /\ UNCHANGED <<statusVars, guardVars, sockVars, spawned, trace, child, stdin, reader_running,
                   pending, ackbox, gen, alive, inbuf, recvd, outbuf, readers, wrote, acked,
                   overtaken, id, nextId, gwVars>>

\* bridge.rs 171: the reader task, with an Ack line parsed, takes the
\* pending-table guard.
ReadAckLock(g) ==
    /\ g \in readers /\ outbuf[g] # <<>>
    /\ Head(outbuf[g]).type = "ack"
    /\ plock = 0
    /\ plock' = ReaderOf(g)
    /\ UNCHANGED <<statusVars, wire, sockVars, sawFailure, spawned, trace, bridgeVars, taskVars,
                   gwVars>>

\* ReadAckResolve by a reader that takes the inner guard as well before it
\* touches the table.
ReadAckResolve_TakesInner(g) ==
    /\ g \in readers /\ outbuf[g] # <<>> /\ plock = ReaderOf(g)
    /\ lock = 0
    /\ LET m == Head(outbuf[g])
           a == [success |-> m.success, error |-> m.error]
       IN /\ pending' = pending \ {m.id}
          /\ ackbox' = IF m.id \in pending /\ LiveWaiter(m.id)
                       THEN [ackbox EXCEPT ![m.id] = a] ELSE ackbox
          /\ acked' = IF m.id \in Ids /\ acked[m.id] = NoAck /\ LiveWaiter(m.id)
                      THEN [acked EXCEPT ![m.id] = a] ELSE acked
          /\ overtaken' = IF m.id \in pending /\ LiveWaiter(m.id)
                          THEN overtaken \cup {i \in pending : i < m.id /\ wrote[i] # 0
                                                                 /\ LiveWaiter(i)}
                          ELSE overtaken
    /\ outbuf' = [outbuf EXCEPT ![g] = Tail(@)]
    /\ plock' = 0
    /\ UNCHANGED <<statusVars, wire, sockVars, sawFailure, spawned, trace, child, stdin,
                   reader_running, lock, gen, alive, inbuf, recvd, readers, wrote, taskVars,
                   gwVars>>

\* bridge.rs 172-175: holding the pending-table guard and no other, the reader
\* removes the entry, sends on its oneshot and drops the guard.
ReadAckResolve(g) ==
    /\ g \in readers /\ outbuf[g] # <<>> /\ plock = ReaderOf(g)
    /\ LET m == Head(outbuf[g])
           a == [success |-> m.success, error |-> m.error]
       IN /\ pending' = pending \ {m.id}
          /\ ackbox' = IF m.id \in pending /\ LiveWaiter(m.id)
                       THEN [ackbox EXCEPT ![m.id] = a] ELSE ackbox
          /\ acked' = IF m.id \in Ids /\ acked[m.id] = NoAck /\ LiveWaiter(m.id)
                      THEN [acked EXCEPT ![m.id] = a] ELSE acked
          /\ overtaken' = IF m.id \in pending /\ LiveWaiter(m.id)
                          THEN overtaken \cup {i \in pending : i < m.id /\ wrote[i] # 0
                                                                 /\ LiveWaiter(i)}
                          ELSE overtaken
    /\ outbuf' = [outbuf EXCEPT ![g] = Tail(@)]
    /\ plock' = 0
    /\ UNCHANGED <<statusVars, wire, sockVars, sawFailure, spawned, trace, child, stdin,
                   reader_running, lock, gen, alive, inbuf, recvd, readers, wrote, taskVars,
                   gwVars>>

\* One caller's steps and one reader's steps, guard by guard.
GuardedTaskStep(t) ==
    \/ EnsureAlive(t) \/ EnsureSpawn(t) \/ EnsureSpawnFails(t)
    \/ InsertLock(t) \/ InsertTableLock(t) \/ InsertPut(t)
    \/ WriteLock(t) \/ WriteHead(t) \/ WriteRest(t)
    \/ WriteFails(t) \/ WriteRestFails(t)
    \/ AwaitAck(t) \/ AwaitFails(t)
GuardedReaderStep(g) == ReadAckLock(g) \/ ReadAckResolve(g) \/ ReaderExit(g)

\* The bridge with every acquisition of a guard and every part of a write a
\* step of its own.
NextGuards ==
    \/ \E t \in Tasks : BeginCall(t) \/ Return(t) \/ GuardedTaskStep(t)
    \/ \E g \in Gens : GuardedReaderStep(g)
    \/ ProcStep

SpecGuards == Init /\ [][NextGuards]_vars

\* ── Session status engine (session/status.rs) ────────────────────────────

\* SessionStatus (status.rs 17-29).
SessionStatus == {"Working", "NeedsPermission", "WaitingForInput", "Connecting"}

\* AssistantMessage.stop_reason: None is Option::None, "refusal" stands for
\* every value the match arms do not name.
StopReasons == {None, "end_turn", "tool_use", "max_tokens", "stop_sequence", "refusal"}

\* SessionEntryBase.timestamp: one RFC 3339 text, a second before the clock's
\* origin, and one text that does not parse.
Timestamps == {"1969-12-31T23:59:59Z", "garbage"}

\* DateTime::parse_from_rfc3339 (status.rs 85): the seconds the text denotes.
parse_from_rfc3339(timestamp) ==
    IF timestamp = "1969-12-31T23:59:59Z" THEN [ok |-> TRUE, secs |-> 0 - 1]
    ELSE [ok |-> FALSE, secs |-> 0]

\* The tool invocations (name, input) transcripts hold.
Invocations == {<<"Read", "/test/file.txt">>, <<"Bash", "make build">>}

\* MessageContent: Text, ToolUse{id, name, input}, ToolResult{tool_use_id}.
Text == [type |-> "Text", id |-> None, name |-> None, input |-> None]
ToolUse(i, inv) == [type |-> "ToolUse", id |-> i, name |-> inv[1], input |-> inv[2]]
ToolResult(i) == [type |-> "ToolResult", id |-> i, name |-> None, input |-> None]

Items ==
    {Text, ToolUse("toolu_1", <<"Read", "/test/file.txt">>),
     ToolUse("toolu_2", <<"Bash", "make build">>),
     ToolResult("toolu_1")}

\* AssistantMessage.content: every sequence of at most MaxItems items.
Contents == UNION {[1..n -> Items] : n \in 0..MaxItems}

\* SessionEntry: User, Assistant, and "Summary" for every other variant.
Entry(k, ts, c, sr) == [kind |-> k, timestamp |-> ts, content |-> c, stop_reason |-> sr]
UserEntries == {Entry("User", "1969-12-31T23:59:59Z", <<>>, None)}
OtherEntries == {Entry("Summary", "1969-12-31T23:59:59Z", <<>>, None)}
AssistantEntries ==
    {Entry("Assistant", ts, c, sr) : ts \in Timestamps, c \in Contents, sr \in StopReasons}

\* The entries a tail ends with, and the entries that come before the last.
LastEntries == UserEntries \cup OtherEntries \cup AssistantEntries
EarlierEntries ==
    UserEntries \cup OtherEntries \cup
    {Entry("Assistant", ts, <<ToolUse("toolu_2", <<"Bash", "make build">>)>>, "tool_use") :
        ts \in Timestamps}

\* The entry tails the status functions are called with.
EntryLists ==
    {<<>>} \cup
    UNION {{Append(p, e) : p \in [1..(n - 1) -> EarlierEntries], e \in LastEntries} :
              n \in 1..MaxEntries}

\* PermissionChecker::is_auto_approved with the settings loaded once
\* (status.rs 8-12).
is_auto_approved(name, input) == <<name, input>> \in checker

\* status.rs 84-93.
is_entry_recent(timestamp, seconds) ==
    LET entry_time == parse_from_rfc3339(timestamp)
    IN  IF entry_time.ok THEN now - entry_time.secs < seconds ELSE FALSE

\* status.rs 185-215.
check_all_tools_completed(content) ==
    LET tool_use_ids == SelectSeq(content, LAMBDA c : c.type = "ToolUse")
        tool_result_ids == SelectSeq(content, LAMBDA c : c.type = "ToolResult")
    IN  IF tool_use_ids = <<>> THEN TRUE
        ELSE \A i \in DOMAIN tool_use_ids :
                \E j \in DOMAIN tool_result_ids : tool_result_ids[j].id = tool_use_ids[i].id

\* status.rs 180-182.
has_pending_tool_uses(content) == ~check_all_tools_completed(content)

\* are_pending_tools_auto_approved without the skip of completed tool uses.
are_pending_tools_auto_approved_AllTools(content) ==
    \A i \in DOMAIN content :
        content[i].type = "ToolUse" => is_auto_approved(content[i].name, content[i].input)

\* status.rs 144-177.
are_pending_tools_auto_approved(content) ==
    LET completed_ids == {content[j].id : j \in {k \in DOMAIN content : content[k].type = "ToolResult"}}
    IN  \A i \in DOMAIN content :
            (content[i].type = "ToolUse" /\ content[i].id \notin completed_ids)
                => is_auto_approved(content[i].name, content[i].input)

\* analyze_assistant_message with the stop-reason arms of the branch without
\* tool use applied to completed tool uses as well.
analyze_assistant_message_OneMatch(message) ==
    LET has_tool_use == \E i \in DOMAIN message.content : message.content[i].type = "ToolUse"
    IN  IF has_tool_use /\ ~check_all_tools_completed(message.content)
        THEN IF are_pending_tools_auto_approved(message.content)
             THEN "Working"
             ELSE "NeedsPermission"
        ELSE CASE message.stop_reason = "end_turn" -> "WaitingForInput"
               [] message.stop_reason \in {"max_tokens", "stop_sequence"} -> "WaitingForInput"
               [] message.stop_reason = None -> "Working"
               [] OTHER -> "WaitingForInput"

\* analyze_assistant_message with the stop-reason arms of the completed
\* branch applied to a message without tool use as well.
analyze_assistant_message_ToolArms(message) ==
    LET has_tool_use == \E i \in DOMAIN message.content : message.content[i].type = "ToolUse"
    IN  IF has_tool_use /\ ~check_all_tools_completed(message.content)
        THEN IF are_pending_tools_auto_approved(message.content)
             THEN "Working"
             ELSE "NeedsPermission"
        ELSE CASE message.stop_reason = "end_turn" -> "WaitingForInput"
               [] message.stop_reason = "tool_use" -> "Working"
               [] message.stop_reason \in {"max_tokens", "stop_sequence"} -> "WaitingForInput"
               [] OTHER -> "WaitingForInput"

\* analyze_assistant_message that takes a stop reason it does not know, on a
\* message without tool use, for a message still being generated.
analyze_assistant_message_UnknownStop(message) ==
    LET has_tool_use == \E i \in DOMAIN message.content : message.content[i].type = "ToolUse"
    IN  IF has_tool_use
        THEN IF check_all_tools_completed(message.content)
             THEN CASE message.stop_reason = "end_turn" -> "WaitingForInput"
                    [] message.stop_reason = "tool_use" -> "Working"
                    [] message.stop_reason \in {"max_tokens", "stop_sequence"} -> "WaitingForInput"
                    [] OTHER -> "WaitingForInput"
             ELSE IF are_pending_tools_auto_approved(message.content)
                  THEN "Working"
                  ELSE "NeedsPermission"
        ELSE CASE message.stop_reason = "end_turn" -> "WaitingForInput"
               [] message.stop_reason \in {"max_tokens", "stop_sequence"} -> "WaitingForInput"
               [] message.stop_reason = None -> "Working"
               [] OTHER -> "Working"

\* status.rs 96-141.
analyze_assistant_message(message) ==
    LET has_tool_use == \E i \in DOMAIN message.content : message.content[i].type = "ToolUse"
    IN  IF has_tool_use
        THEN IF check_all_tools_completed(message.content)
             THEN CASE message.stop_reason = "end_turn" -> "WaitingForInput"
                    [] message.stop_reason = "tool_use" -> "Working"
                    [] message.stop_reason \in {"max_tokens", "stop_sequence"} -> "WaitingForInput"
                    [] OTHER -> "WaitingForInput"
             ELSE IF are_pending_tools_auto_approved(message.content)
                  THEN "Working"
                  ELSE "NeedsPermission"
        ELSE CASE message.stop_reason = "end_turn" -> "WaitingForInput"
               [] message.stop_reason \in {"max_tokens", "stop_sequence"} -> "WaitingForInput"
               [] message.stop_reason = None -> "Working"
               [] OTHER -> "WaitingForInput"

\* determine_status that, for a user message, reports what the assistant
\* message before it asks for.
determine_status_LookBack(es) ==
    IF es = <<>> THEN "Connecting"
    ELSE LET last_entry == es[Len(es)]
         IN  CASE last_entry.kind = "User" ->
                    IF Len(es) >= 2 /\ es[Len(es) - 1].kind = "Assistant"
                       /\ analyze_assistant_message(es[Len(es) - 1]) = "NeedsPermission"
                    THEN "NeedsPermission"
                    ELSE "Working"
               [] last_entry.kind = "Assistant" -> analyze_assistant_message(last_entry)
               [] OTHER -> "WaitingForInput"

\* determine_status that treats a single entry as a session starting up.
determine_status_FewEntries(es) ==
    IF Len(es) <= 1 THEN "Connecting"
    ELSE LET last_entry == es[Len(es)]
         IN  CASE last_entry.kind = "User" -> "Working"
               [] last_entry.kind = "Assistant" -> analyze_assistant_message(last_entry)
               [] OTHER -> "WaitingForInput"

\* determine_status whose grace-period branch reports an auto-approved tool
\* use that has been pending for two seconds or more as waiting.
determine_status_LongRunning(es) ==
    IF es = <<>> THEN "Connecting"
    ELSE LET last_entry == es[Len(es)]
         IN  CASE last_entry.kind = "User" -> "Working"
               [] last_entry.kind = "Assistant" ->
                    LET raw_status == analyze_assistant_message(last_entry)
                    IN  IF raw_status = "Working"
                        THEN IF has_pending_tool_uses(last_entry.content)
                                /\ ~is_entry_recent(last_entry.timestamp, 2)
                             THEN "WaitingForInput"
                             ELSE raw_status
                        ELSE raw_status
               [] OTHER -> "WaitingForInput"

\* status.rs 38-81.
determine_status(es) ==
    IF es = <<>> THEN "Connecting"
    ELSE LET last_entry == es[Len(es)]
         IN  CASE last_entry.kind = "User" -> "Working"
               [] last_entry.kind = "Assistant" ->
                    LET raw_status == analyze_assistant_message(last_entry)
                    IN  IF raw_status = "Working"
                        THEN IF has_pending_tool_uses(last_entry.content)
                                /\ ~is_entry_recent(last_entry.timestamp, 2)
                             THEN "Working"
                             ELSE raw_status
                        ELSE raw_status
               [] OTHER -> "WaitingForInput"

\* determine_status_with_context that asks for two entries of context only.
determine_status_with_context_TwoEntries(es) ==
    IF Len(es) <= 1 THEN "Connecting"
    ELSE LET basic_status == determine_status(es)
             last_entry == es[Len(es)]
             prev_entry == es[Len(es) - 1]
         IN  IF /\ basic_status = "Working"
                /\ last_entry.kind = "Assistant" /\ prev_entry.kind = "Assistant"
                /\ ~(\E i \in DOMAIN last_entry.content : last_entry.content[i].type = "ToolUse")
                /\ last_entry.stop_reason # None
             THEN "WaitingForInput"
             ELSE basic_status

\* determine_status_with_context that reclassifies without asking whether the
\* last message carries a stop reason.
determine_status_with_context_AnyStop(es) ==
    IF Len(es) <= 2 THEN "Connecting"
    ELSE LET basic_status == determine_status(es)
             last_entry == es[Len(es)]
             prev_entry == es[Len(es) - 1]
         IN  IF /\ basic_status = "Working"
                /\ last_entry.kind = "Assistant" /\ prev_entry.kind = "Assistant"
                /\ ~(\E i \in DOMAIN last_entry.content : last_entry.content[i].type = "ToolUse")
             THEN "WaitingForInput"
             ELSE basic_status

\* status.rs 222-258.
determine_status_with_context(es) ==
    IF es = <<>> THEN "Connecting"
    ELSE IF Len(es) <= 2 THEN "Connecting"
    ELSE LET basic_status == determine_status(es)
             last_entry == es[Len(es)]
             prev_entry == es[Len(es) - 1]
             last_has_tools ==
                 \E i \in DOMAIN last_entry.content : last_entry.content[i].type = "ToolUse"
         IN  IF /\ basic_status = "Working" /\ Len(es) >= 2
                /\ last_entry.kind = "Assistant" /\ prev_entry.kind = "Assistant"
                /\ ~last_has_tools /\ last_entry.stop_reason # None
             THEN "WaitingForInput"
             ELSE basic_status

\* status.rs 59-62: determine_status evaluates is_entry_recent when the raw
\* status is Working and a tool use is pending.
AsksRecency(es) ==
    /\ es # <<>> /\ es[Len(es)].kind = "Assistant"
    /\ analyze_assistant_message(es[Len(es)]) = "Working"
    /\ has_pending_tool_uses(es[Len(es)].content)

\* What is_entry_recent has returned once determine_status(es) has run.
RecencyAfter(es) ==
    IF AsksRecency(es)
    THEN recency \cup {is_entry_recent(es[Len(es)].timestamp, 2)}
    ELSE recency

\* A caller applies determine_status to the tail it holds.
Call_determine_status ==
    /\ status' = determine_status(entries)
    /\ recency' = RecencyAfter(entries)
    /\ UNCHANGED <<guardVars, bridgeVars, taskVars, gwVars, sockVars, spawned, sawFailure, trace,
                   entries, checker, now, context_status>>

\* A caller applies determine_status_with_context to the tail it holds; it
\* calls determine_status for a tail of three or more entries.
Call_determine_status_with_context ==
    /\ context_status' = determine_status_with_context(entries)
    /\ recency' = IF Len(entries) <= 2 THEN recency ELSE RecencyAfter(entries)
    /\ UNCHANGED <<guardVars, bridgeVars, taskVars, gwVars, sockVars, spawned, sawFailure, trace,
                   entries, checker, now, status>>

\* Utc::now() (status.rs 86) reads a later second.
Tick ==
    /\ now < MaxNow
    /\ now' = now + 1
    /\ UNCHANGED <<guardVars, bridgeVars, taskVars, gwVars, sockVars, spawned, sawFailure, trace,
                   entries, checker, status, context_status, recency>>

\* The same tail with another base.timestamp on one assistant entry
\* (status.rs 52, 62).
Restamp(i, ts) ==
    /\ i \in DOMAIN entries
    /\ entries[i].kind = "Assistant"
    /\ ts # entries[i].timestamp
    /\ entries' = [entries EXCEPT ![i].timestamp = ts]
    /\ UNCHANGED <<guardVars, bridgeVars, taskVars, gwVars, sockVars, spawned, sawFailure, trace,
                   checker, now, status, context_status, recency>>

NextStatus ==
    \/ Call_determine_status
    \/ Call_determine_status_with_context
    \/ Tick
    \/ \E i \in 1..MaxEntries, ts \in Timestamps : Restamp(i, ts)

\* The status functions applied to every tail of EntryLists under every
\* permission setting, at every second up to MaxNow.
InitStatus ==
    /\ InitServices
    /\ entries \in EntryLists
    /\ checker \in SUBSET Invocations
    /\ now = 0
    /\ status = None /\ context_status = None /\ recency = {}

SpecStatus == InitStatus /\ [][NextStatus]_vars

\* ── Claims about the gateway (SpecGateway) ───────────────────────────────

\* C1: whenever a sendInput for session S is forwarded to the bridge, every
\* native pid a client has named for S has been asked to stop and its settle
\* delay has passed.
C1_NoSecondWriter ==
    \A t \in Tasks : fwd[t].done => fwd[t].unstopped = {}

\* C2: a takeoverSession handler with a nonzero pid does stop, settle and
\* register in that order: what it has done is always a prefix of
\* <<stop, settle, register>>, so it never registers before the delay ends.
C2_StopSettleRegister ==
    \A t \in Tasks :
        (frame[t].type = "takeoverSession" /\ frame[t].pid > 0) =>
            /\ trace[t] \in {<<"stop">>, <<"stop", "settle">>,
                             <<"stop", "settle", "register">>}
            /\ frame[t].pid \in stopAsked
            /\ Len(trace[t]) >= 2 => frame[t].pid \in settled

\* C2 witness: a takeover with a pid has registered its session.
C2_Witness ==
    \E t \in Tasks :
        /\ frame[t].type = "takeoverSession" /\ frame[t].pid > 0
        /\ trace[t] = <<"stop", "settle", "register">>
        /\ registry[frame[t].sid] = frame[t].path

\* C15: a sendInput with a nonzero pid for a session not yet managed starts
\* with the stop request, and what its handler has done is always a prefix of
\* <<stop, settle, register, forward>>: at the forward the session is managed,
\* and the message goes with the project path of the command.
C15_AutoTakeoverThenForward ==
    /\ [][\A t \in Tasks :
            (/\ frame[t] = NoFrame /\ frame'[t].type = "sendInput"
             /\ frame'[t].pid > 0 /\ ~is_managed(registry, frame'[t].sid)) =>
                (trace'[t] = <<"stop">> /\ frame'[t].pid \in stopAsked')]_vars
    /\ [](\A t \in Tasks :
            (frame[t].type = "sendInput" /\ trace[t] # <<>> /\ Head(trace[t]) = "stop") =>
                /\ trace[t] \in {<<"stop">>, <<"stop", "settle">>,
                                 <<"stop", "settle", "register">>,
                                 <<"stop", "settle", "register", "forward">>}
                /\ Len(trace[t]) >= 2 => frame[t].pid \in settled
                /\ Len(trace[t]) >= 3 => is_managed(registry, frame[t].sid)
                /\ fwd[t].done <=> Len(trace[t]) = 4
                /\ fwd[t].done => (fwd[t].managed /\ fwd[t].cwd = frame[t].path))

\* C15 witness: a first sendInput with a pid has been forwarded after its
\* inline takeover, with the path it carried.
C15_Witness ==
    \E t \in Tasks :
        /\ frame[t].type = "sendInput" /\ frame[t].pid > 0
        /\ trace[t] = <<"stop", "settle", "register", "forward">>
        /\ fwd[t].done /\ fwd[t].managed /\ fwd[t].cwd = frame[t].path
        /\ pc[t] = "bridge"

\* C18: is_managed is true exactly for the sessions take_over_session was
\* called for, get_project_path gives the path of the latest call, and for a
\* session never taken over it fails with the 'not managed' error.
C18_RegistryReflectsTakeovers ==
    \A s \in Sessions :
        /\ is_managed(registry, s) <=> takenOver[s] # None
        /\ takenOver[s] # None =>
              get_project_path(registry, s) = [ok |-> TRUE, val |-> takenOver[s]]
        /\ takenOver[s] = None =>
              get_project_path(registry, s) = [ok |-> FALSE, val |-> "Session is not managed"]

\* C18 witness: a session taken over with one path and then with another has
\* the second path, while the other session was never taken over.
C18_Witness ==
    \E t, u \in Tasks :
        /\ frame[t].type = "takeoverSession" /\ frame[u].type = "takeoverSession"
        /\ frame[t].sid = frame[u].sid /\ frame[t].path # frame[u].path
        /\ pc[t] = "ret" /\ pc[u] = "ret"
        /\ takenOver[frame[t].sid] = frame[t].path
        /\ get_project_path(registry, frame[t].sid).val = frame[t].path
        /\ \E s \in Sessions : ~is_managed(registry, s)

\* C19: a takeoverSession with pid 0 goes straight to the registration, with
\* no stop request and no settle delay, and answers ok; when the session is
\* already registered with the same path the Registry is left as it was.
C19_RepeatTakeoverIdempotent ==
    /\ [](\A t \in Tasks :
            (frame[t].type = "takeoverSession" /\ frame[t].pid = 0) =>
                /\ trace[t] \in {<<>>, <<"register">>}
                /\ pc[t] \in {"tk_register", "ret"}
                /\ pc[t] = "ret" => res[t] = "Ok")
    /\ [][\A t \in Tasks :
            /\ (/\ frame[t] = NoFrame /\ frame'[t].type = "takeoverSession"
                 /\ frame'[t].pid = 0) =>
                   (stopAsked' = stopAsked /\ settled' = settled)
            /\ (/\ frame[t].type = "takeoverSession" /\ frame[t].pid = 0
                 /\ pc[t] = "tk_register" /\ pc'[t] = "ret"
                 /\ registry[frame[t].sid] = frame[t].path) =>
                   /\ registry' = registry /\ res'[t] = "Ok"
                   /\ stopAsked' = stopAsked /\ settled' = settled]_vars

\* C19 witness: two takeoverSession commands with pid 0 for the same session
\* and path have both been answered ok, with no stop ever requested.
C19_Witness ==
    \E t, u \in Tasks :
        /\ t # u /\ frame[t] = frame[u]
        /\ frame[t].type = "takeoverSession" /\ frame[t].pid = 0
        /\ pc[t] = "ret" /\ pc[u] = "ret" /\ res[t] = "Ok" /\ res[u] = "Ok"
        /\ registry[frame[t].sid] = frame[t].path /\ stopAsked = {}

\* C20: no step removes a Registry entry, and a step changes at most the entry
\* of the session its handler is registering.
C20_EntriesNeverRemoved ==
    [][\A s \in Sessions :
          /\ is_managed(registry, s) => is_managed(registry', s)
          /\ registry'[s] # registry[s] =>
                \E t \in Tasks :
                    /\ frame[t].sid = s /\ registry'[s] = frame[t].path
                    /\ pc[t] \in {"tk_register", "si_register"} /\ pc'[t] # pc[t]
                    /\ \A r \in Sessions \ {s} : registry'[r] = registry[r]]_vars

\* C20 witness: a session is still registered after a sendInput for it failed
\* in the bridge, and so is the other session, whose connection has closed.
C20_Witness ==
    \E t, u \in Tasks : \E s \in Sessions :
        /\ frame[t].type = "sendInput" /\ pc[t] = "ret"
        /\ res[t] = "Err:Bridge command timed out (30s)"
        /\ is_managed(registry, frame[t].sid)
        /\ s # frame[t].sid /\ is_managed(registry, s)
        /\ conn[u] = "closed"

\* ── Claims about the bridge (SpecBridge, FairBridge) ─────────────────────

\* A caller's result that came from an ack.
AckOutcomes == {"Ok", "Err:Unknown bridge error", "Err:boom"}
TimedOut == "Err:Bridge command timed out (30s)"
ChannelDropped == "Err:Bridge ack channel dropped"

\* C3: a command's id is in the pending table at the moment its line is
\* written to the subprocess's input, and so the first ack read for an id whose
\* caller is waiting is always put through to that caller's oneshot.
C3_RegisteredBeforeWrite ==
    /\ [][\A i \in Ids : (wrote[i] = 0 /\ wrote'[i] # 0) => i \in pending]_vars
    /\ [](\A i \in Ids : acked[i] # NoAck => ackbox[i] = acked[i])

\* C3 witness: an ack has reached the oneshot of a caller still waiting on it.
C3_Witness ==
    \E t \in Tasks : pc[t] = "await" /\ wrote[id[t]] # 0 /\ ackbox[id[t]] # NoAck

\* C4: each caller is resolved by the ack bearing its own id: what its oneshot
\* holds is the first ack read with its id, and a caller that returns an ack's
\* outcome returns the outcome of that ack, in whatever order acks arrive.
C4_OwnAckOnly ==
    \A t \in Tasks :
        /\ (pc[t] \in {"await", "ret"} /\ ackbox[id[t]] # NoAck) =>
               ackbox[id[t]] = acked[id[t]]
        /\ (pc[t] = "ret" /\ wrote[id[t]] # 0 /\ res[t] \in AckOutcomes) =>
               /\ acked[id[t]] # NoAck
               /\ res[t] = "Ok" <=> acked[id[t]].success

\* C4 witness: two commands in flight together, acked in the reverse of issue
\* order with different outcomes, and each caller has its own.
C4_Witness ==
    \E t, u \in Tasks :
        /\ pc[t] = "ret" /\ pc[u] = "ret" /\ id[t] < id[u]
        /\ id[t] \in overtaken
        /\ res[t] = "Ok" /\ res[u] = "Err:boom"

\* C5: when the subprocess has exited after a command's line was written and
\* before replying, the waiting call ends with the 'ack channel dropped' error.
C5_DroppedOnExit ==
    [][\A t \in Tasks :
          (/\ pc[t] = "await" /\ pc'[t] = "ret"
           /\ wrote[id[t]] \notin alive
           /\ acked[id[t]] = NoAck) => res'[t] = ChannelDropped]_vars

\* C6: every bridge command call eventually returns, whatever the subprocess
\* does.
C6_EveryCallReturns ==
    \A t \in Tasks : (pc[t] = "ensure") ~> (pc[t] = "ret")

\* C7: a call that finds no process, or an exited one, leaves ensure_running
\* with a freshly spawned live process whose stdin is the stored handle (it
\* fails there only when the spawn itself fails), and neither writes nor tries
\* to write its line to a generation older than the one it spawned.
C7_RespawnInCall ==
    /\ [][\A t \in Tasks :
            /\ (pc[t] = "ensure" /\ pc'[t] = "insert") =>
                  /\ child' \in alive' /\ stdin' = child'
                  /\ (child = 0 \/ child \notin alive) =>
                         (child' = gen' /\ gen' = gen + 1 /\ spawned'[t] = gen')
            /\ (pc[t] = "ensure" /\ pc'[t] = "ret") =>
                  (res'[t] = "Err:Failed to spawn bridge" /\ gen' = gen)]_vars
    /\ [](\A t \in Tasks :
            /\ (spawned[t] # 0 /\ wrote[id[t]] # 0) => wrote[id[t]] >= spawned[t]
            /\ (spawned[t] # 0 /\ pc[t] = "writing") => stdin >= spawned[t])

\* C7 witness: a call that found its process exited has written its line to the
\* process it spawned.
C7_Witness ==
    \E t \in Tasks : spawned[t] = 2 /\ pc[t] = "await" /\ wrote[id[t]] = 2

\* C8: a call whose ack arrived while it waited returns Ok exactly when the
\* ack's success flag is true, and otherwise the ack's error text, or the fixed
\* 'Unknown bridge error' text when the ack has none.
C8_AckDecidesResult ==
    \A t \in Tasks :
        (pc[t] = "ret" /\ acked[id[t]] # NoAck) =>
            res[t] = IF acked[id[t]].success THEN "Ok"
                     ELSE IF acked[id[t]].error = None THEN "Err:Unknown bridge error"
                     ELSE "Err:boom"

\* C8 witness: a positive ack that carries an error text has given Ok.
C8_Witness ==
    \E t \in Tasks :
        /\ pc[t] = "ret" /\ res[t] = "Ok"
        /\ acked[id[t]] = [success |-> TRUE, error |-> "boom"]

\* C9: an id enters the pending table only by its own caller's insert and
\* leaves it only when a reader task reads an ack bearing it; a timeout, a
\* failed write, a subprocess exit and a respawn leave the table as it is.
C9_TableOnlyInsertAndAck ==
    [][/\ \A i \in pending' \ pending :
            \E t \in Tasks : id[t] = i /\ pc[t] = "insert" /\ pc'[t] = "write"
       /\ \A i \in pending \ pending' :
            \E g \in readers :
                /\ outbuf[g] # <<>> /\ outbuf'[g] = Tail(outbuf[g])
                /\ Head(outbuf[g]).type = "ack" /\ Head(outbuf[g]).id = i
       /\ \A t \in Tasks : (pc[t] = "insert" /\ pc'[t] = "write") => id[t] \notin pending
      ]_vars

\* C9 witness: an entry orphaned by a timeout is still in the table after the
\* subprocess has exited and another has been spawned.
C9_Witness ==
    \E t \in Tasks :
        /\ pc[t] = "ret" /\ res[t] = TimedOut /\ id[t] \in pending
        /\ gen = 2 /\ 1 \notin alive

\* An ack line at the head of generation g's stdout whose id has no live waiter.
NoWaiterAck(g) ==
    /\ g \in readers /\ outbuf[g] # <<>>
    /\ Head(outbuf[g]).type = "ack"
    /\ ~LiveWaiter(Head(outbuf[g]).id)

\* C10: reading an ack whose id has no live waiter changes no call's result,
\* leaves every other pending entry as it is, and the reader task goes on.
C10_StrayAckHarmless ==
    [][\A g \in Gens :
          (NoWaiterAck(g) /\ outbuf'[g] = Tail(outbuf[g])) =>
              /\ res' = res /\ ackbox' = ackbox /\ pc' = pc
              /\ pending' = pending \ {Head(outbuf[g]).id}
              /\ g \in readers']_vars

\* C10 witness: the ack of a caller that had already timed out has been read
\* (its entry is gone) and the caller's result is still the timeout.
C10_Witness ==
    \E t \in Tasks :
        /\ pc[t] = "ret" /\ res[t] = TimedOut
        /\ wrote[id[t]] # 0 /\ id[t] \notin pending
        /\ wrote[id[t]] \in readers

\* C11: a call's failing step (failed spawn, missing stdin, failed write,
\* timeout, negative ack) leaves every other unresolved call as it was: its
\* position, its table entry, its oneshot and the lines already in the pipes.
\* A call that saw another fail while it was unresolved, and whose ack was
\* then read, still returns that ack's outcome.
C11_FailureIsLocal ==
    /\ [][\A t \in Tasks :
            (pc[t] # "ret" /\ pc'[t] = "ret" /\ res'[t] # "Ok") =>
                /\ inbuf' = inbuf /\ outbuf' = outbuf
                /\ \A u \in Tasks \ {t} : InFlight(u) =>
                      /\ pc'[u] = pc[u] /\ res'[u] = res[u] /\ id'[u] = id[u]
                      /\ ackbox'[id[u]] = ackbox[id[u]]
                      /\ wrote'[id[u]] = wrote[id[u]]
                      /\ (id[u] \in pending') = (id[u] \in pending)]_vars
    /\ [](\A u \in Tasks :
            (pc[u] = "ret" /\ sawFailure[u] /\ acked[id[u]] # NoAck) =>
                /\ res[u] \in AckOutcomes
                /\ res[u] = "Ok" <=> acked[id[u]].success)

\* C11 witness: a call that was unresolved when another call's write failed has
\* returned Ok from its own ack.
C11_Witness ==
    \E t, u \in Tasks :
        /\ pc[t] = "ret" /\ res[t] = "Err:Failed to write to bridge"
        /\ pc[u] = "ret" /\ sawFailure[u] /\ res[u] = "Ok"
        /\ acked[id[u]] # NoAck

\* ── Claims about connections and feeds (SpecSocket, FairSocket) ──────────

\* A message of feed f has just been relayed to connection t.
Relayed(t, f) == got'[t][f] # got[t][f] /\ got'[t][f] # 0

\* Connection t's receiver of feed f has just been told it lagged.
ToldLagged(t, f) == f \in disabled'[t] /\ f \notin disabled[t]

\* C12, safety: a subscriber is given a feed's messages at most once and in
\* publication order; one that lags loses exactly the messages no longer
\* retained, and its connection stays open.
C12_OrderedLossy ==
    [][\A t \in Tasks, f \in Feeds :
          /\ Relayed(t, f) => (got'[t][f] > got[t][f] /\ got'[t][f] <= published[f])
          /\ ToldLagged(t, f) => /\ conn'[t] = "open"
                                 /\ cursor'[t][f] = published[f] - FeedCap
                                 /\ got'[t][f] = got[t][f]]_vars

\* C12, liveness: a connection that lagged on a feed goes on to relay a later
\* message of that feed, unless it closes.
C12_ResumesAfterLag ==
    \A t \in Tasks, f \in Feeds, k \in 0..MaxPub :
        (conn[t] = "open" /\ f \in disabled[t] /\ cursor[t][f] = k)
            ~> (conn[t] = "closed" \/ got[t][f] > k)

\* C12: each subscriber gets every published event at most once and in order; a
\* lagging subscriber loses the oldest events, stays connected and resumes
\* relaying the later ones.
C12_LossyFeedResumes == C12_OrderedLossy /\ C12_ResumesAfterLag

\* C13: a connection is in its loop exactly when its attempt carried the
\* configured token; an attempt with another token or none was answered 401,
\* is not upgraded, has had no frame read or dispatched and no frame sent.
C13_TokenGatesLoop ==
    \A t \in Tasks :
        /\ conn[t] = "open" <=> tok[t] = AuthToken
        /\ tok[t] = AuthToken => http[t] = "101"
        /\ tok[t] \notin {AuthToken, "NoAttempt"} =>
              /\ http[t] = "401" /\ conn[t] = "closed"
              /\ pc[t] = "idle" /\ frame[t] = NoFrame /\ taken[t] = 0
              /\ out[t] = NoOut
              /\ \A f \in Feeds : got[t][f] = 0

\* C13 witness: an attempt with a token one character short was refused and has
\* been sent nothing, while a connection with the right token has had a command
\* answered and a feed message relayed.
C13_Witness ==
    \E t, u \in Tasks :
        /\ tok[t] = "secre" /\ http[t] = "401" /\ out[t] = NoOut
        /\ tok[u] = AuthToken /\ conn[u] = "open" /\ answered[u] >= 1
        /\ \E f \in Feeds : got[u][f] >= 1

\* C14: on a connection the n-th response is sent for the n-th text frame read,
\* each frame is read only after the one before it was answered, the response
\* to a text that does not parse is the error frame (and the connection stays
\* open), the response to a command is one of its result frames, and a response
\* changes nothing of what was sent to another connection.
C14_OneResponsePerFrame ==
    /\ [](\A t \in Tasks :
            /\ answered[t] <= taken[t] /\ taken[t] <= answered[t] + 1
            /\ pc[t] = "idle" => answered[t] = taken[t])
    /\ [][\A t \in Tasks :
            /\ taken'[t] = taken[t] + 1 => answered[t] = taken[t]
            /\ answered'[t] = answered[t] + 1 =>
                  /\ answered'[t] = taken[t] /\ conn'[t] = "open"
                  /\ out'[t].feed = None
                  /\ out'[t].type = InvalidReply <=> frame[t].type = "Err"
                  /\ frame[t].type # "Err" => out'[t].type \in Results(frame[t].type)
                  /\ \A u \in Tasks \ {t} :
                        out'[u] = out[u] /\ answered'[u] = answered[u]]_vars

\* C14 witness: a connection that was sent the error frame for a text that did
\* not parse is still open and its next command's result is ready to be sent.
C14_Witness ==
    \E t \in Tasks :
        /\ conn[t] = "open" /\ answered[t] = 1 /\ out[t].type = InvalidReply
        /\ taken[t] = 2 /\ pc[t] = "reply" /\ res[t] = "ok"

\* C16: with clients that send no command, a message published on a feed
\* while a connection is open is relayed to it, unless the connection closes or
\* lags on that feed, and whatever the other feeds do; each feed's messages go
\* out under that feed's frame type, and relaying one feed's message moves no
\* other feed's receiver.
C16_FeedsRelayedIndependently ==
    /\ \A t \in Tasks, f \in Feeds, k \in 1..MaxPub :
          (conn[t] = "open" /\ cursor[t][f] < k /\ k <= published[f])
              ~> \/ got[t][f] = k
                 \/ conn[t] = "closed"
                 \/ f \in disabled[t] \/ published[f] - cursor[t][f] > FeedCap
    /\ [](\A t \in Tasks :
            /\ out[t].feed = "sessions" => out[t].type = "sessionsUpdated"
            /\ out[t].feed = "notifications" => out[t].type = "notification"
            /\ out[t].feed = "bridge" => out[t].type = "streamEvent")
    /\ [][\A t \in Tasks, f \in Feeds :
            Relayed(t, f) =>
                /\ out'[t].feed = f
                /\ \A g \in Feeds \ {f} :
                      got'[t][g] = got[t][g] /\ cursor'[t][g] = cursor[t][g]]_vars

\* C16 witness: a connection that has read no frame from its client has been
\* relayed messages of two feeds, the notification last.
C16_Witness ==
    \E t \in Tasks :
        /\ conn[t] = "open" /\ taken[t] = 0
        /\ got[t]["sessions"] = 1 /\ got[t]["notifications"] = 1
        /\ out[t] = [type |-> "notification", feed |-> "notifications"]

\* C17: every feed message relayed to a connection was published after the
\* connection subscribed; a connection starts with nothing relayed and with its
\* receivers at the channels' ends.
C17_NoReplay ==
    /\ [](\A t \in Tasks, f \in Feeds : got[t][f] # 0 => got[t][f] > subAt[t][f])
    /\ [][\A t \in Tasks :
            (conn[t] = "closed" /\ conn'[t] = "open") =>
                /\ subAt'[t] = published
                /\ \A f \in Feeds : got'[t][f] = 0]_vars

\* C17 witness: a connection made after a feed's first message was published
\* has been relayed the second one, and not the first.
C17_Witness ==
    \E t \in Tasks, f \in Feeds :
        conn[t] = "open" /\ subAt[t][f] = 1 /\ got[t][f] = 2

\* ── Claims about the session status engine (SpecStatus) ──────────────────

\* The last entry of the tail the functions were called with.
LastEntry == entries[Len(entries)]

\* The ToolUse items of a content that no ToolResult of the same id matches.
UnmatchedToolUses(content) ==
    {i \in DOMAIN content :
        /\ content[i].type = "ToolUse"
        /\ ~\E j \in DOMAIN content :
              content[j].type = "ToolResult" /\ content[j].id = content[i].id}

\* The tail ends in an assistant message.
EndsInAssistant == entries # <<>> /\ LastEntry.kind = "Assistant"

\* C21: when the tail ends in an assistant message with an unmatched tool
\* use, determine_status returns Working if the permission settings approve
\* every unmatched tool use and NeedsPermission if they reject one; the stop
\* reason, the matched tool uses and the order of the items play no part.
C21_PendingToolsDecide ==
    (status # None /\ EndsInAssistant /\ UnmatchedToolUses(LastEntry.content) # {}) =>
        status = IF \A i \in UnmatchedToolUses(LastEntry.content) :
                       <<LastEntry.content[i].name, LastEntry.content[i].input>> \in checker
                 THEN "Working"
                 ELSE "NeedsPermission"

\* A matched tool use the settings reject next to a pending one they approve,
\* under stop reason end_turn: the call returned Working.
C21_Witness ==
    /\ status = "Working" /\ EndsInAssistant
    /\ LastEntry.stop_reason = "end_turn"
    /\ UnmatchedToolUses(LastEntry.content) # {}
    /\ \E i \in DOMAIN LastEntry.content :
          /\ LastEntry.content[i].type = "ToolUse"
          /\ i \notin UnmatchedToolUses(LastEntry.content)
          /\ <<LastEntry.content[i].name, LastEntry.content[i].input>> \notin checker

\* The content holds a ToolUse item.
HasToolUse(content) == \E i \in DOMAIN content : content[i].type = "ToolUse"

\* C22: when the tail ends in an assistant message that holds a tool use and
\* every tool use in it has a result, determine_status returns Working for
\* stop reason tool_use and WaitingForInput for every other stop reason,
\* an unrecognised or absent one included.
C22_CompletedToolsFollowStopReason ==
    (/\ status # None /\ EndsInAssistant
     /\ HasToolUse(LastEntry.content)
     /\ UnmatchedToolUses(LastEntry.content) = {}) =>
        status = IF LastEntry.stop_reason = "tool_use" THEN "Working" ELSE "WaitingForInput"

\* Completed tool use and no stop reason: the call returned WaitingForInput.
C22_Witness ==
    /\ status = "WaitingForInput" /\ EndsInAssistant
    /\ HasToolUse(LastEntry.content)
    /\ UnmatchedToolUses(LastEntry.content) = {}
    /\ LastEntry.stop_reason = None

\* C23: when the tail ends in an assistant message without tool use,
\* determine_status returns Working exactly when the stop reason is absent
\* and WaitingForInput for every stop reason that is present.
C23_TextFollowsStopReason ==
    (status # None /\ EndsInAssistant /\ ~HasToolUse(LastEntry.content)) =>
        status = IF LastEntry.stop_reason = None THEN "Working" ELSE "WaitingForInput"

\* No tool use and stop reason tool_use: the call returned WaitingForInput.
C23_Witness ==
    /\ status = "WaitingForInput" /\ EndsInAssistant
    /\ ~HasToolUse(LastEntry.content)
    /\ LastEntry.content # <<>>
    /\ LastEntry.stop_reason = "tool_use"

\* C24: when the tail ends in a user message, determine_status returns
\* Working, whatever the entries before it are.
C24_UserMeansWorking ==
    (status # None /\ entries # <<>> /\ LastEntry.kind = "User") => status = "Working"

\* A user message after an assistant message whose pending tool use the
\* settings reject: the call returned Working.
C24_Witness ==
    /\ status = "Working" /\ Len(entries) >= 2
    /\ LastEntry.kind = "User"
    /\ entries[Len(entries) - 1].kind = "Assistant"
    /\ \E i \in UnmatchedToolUses(entries[Len(entries) - 1].content) :
          <<entries[Len(entries) - 1].content[i].name,
            entries[Len(entries) - 1].content[i].input>> \notin checker

C26_ShortTailConnecting ==
    (context_status # None /\ Len(entries) <= 2) => context_status = "Connecting"

\* Two entries, the last an assistant message whose pending tool use the
\* settings reject: the call returned Connecting.
C26_Witness ==
    /\ context_status = "Connecting" /\ Len(entries) = 2
    /\ LastEntry.kind = "Assistant"
    /\ \E i \in UnmatchedToolUses(LastEntry.content) :
          <<LastEntry.content[i].name, LastEntry.content[i].input>> \notin checker

\* The last two entries are assistant messages and the last holds no tool use
\* and carries a stop reason.
ConcludedAfterAssistant ==
    /\ Len(entries) >= 2
    /\ LastEntry.kind = "Assistant" /\ entries[Len(entries) - 1].kind = "Assistant"
    /\ ~HasToolUse(LastEntry.content)
    /\ LastEntry.stop_reason # None

\* C27: for a tail of at least three entries, determine_status_with_context
\* returns WaitingForInput when determine_status returns Working and the last
\* two entries are assistant messages of which the last holds no tool use and
\* carries a stop reason; in every other case it returns what
\* determine_status returns.
C27_ContextSmoothing ==
    (context_status # None /\ Len(entries) >= 3) =>
        context_status =
            IF determine_status(entries) = "Working" /\ ConcludedAfterAssistant
            THEN "WaitingForInput"
            ELSE determine_status(entries)

\* Three entries, the last two assistant messages, the last still generating
\* (no tool use, no stop reason): the call returned Working as
\* determine_status does.
C27_Witness ==
    /\ context_status = "Working" /\ Len(entries) = 3
    /\ LastEntry.kind = "Assistant" /\ entries[2].kind = "Assistant"
    /\ ~HasToolUse(LastEntry.content)
    /\ LastEntry.stop_reason = None

\* No tail makes determine_status return Working for a last assistant message
\* that holds no tool use and carries a stop reason.
ReclassifyNeverApplies ==
    ~(determine_status(entries) = "Working" /\ ConcludedAfterAssistant)

\* C28: with the permission settings fixed, determine_status depends on the
\* entries' kinds, content items and stop reasons only: every call on a tail
\* that differs from an earlier call's tail in timestamps alone, made at any
\* later second and with calls of determine_status_with_context in between,
\* returns what the earlier call returned.
C28_TimestampsPlayNoPart ==
    [][(status # None /\ status' # None) => status' = status]_vars

\* Calls have taken both arms of the timestamp-age branch (the entry recent
\* for one, not recent for another) and the status is Working.
C28_Witness ==
    /\ recency = {TRUE, FALSE}
    /\ status = "Working" /\ EndsInAssistant
    /\ UnmatchedToolUses(LastEntry.content) # {}

\* ── Claims about the reader task (SpecReader) ────────────────────────────

\* C29: whenever the bridge holds the handle of a process that is running,
\* exactly one reader task is alive and it reads that process's stdout: not
\* none, and none of an earlier generation beside it.
C29_OneReaderPerRunning ==
    (child # 0 /\ child \in alive) => readers = {child}

\* The part of C29 that holds: every spawn starts the reader task of the new
\* process, and no reader task reads a process spawned later than that one.
C29_ReaderStartedPerSpawn ==
    [][(child' # child /\ child' # 0) =>
          (child' \in readers' /\ \A g \in readers' : g <= child')]_vars

\* The lines the reader task is to skip: blank, not valid JSON (text or bytes
\* that are not UTF-8), or JSON with an unknown type.
BadLineTypes == {"blank", "notJson", "unknownType", "notUtf8"}

\* The reader task of g consumes a line of one of the given types.
Consumes(g, types) ==
    /\ g \in readers /\ outbuf[g] # <<>>
    /\ Head(outbuf[g]).type \in types
    /\ outbuf'[g] = Tail(outbuf[g])

\* C30: the step in which the reader task consumes a blank line, a line that
\* is not valid JSON or a line of unknown type changes neither the pending
\* table nor any waiter's channel, publishes nothing, and leaves the reader
\* task alive to process the lines after it.
C30_BadLineSkipped ==
    [][\A g \in Gens :
          Consumes(g, BadLineTypes) =>
              /\ pending' = pending /\ ackbox' = ackbox
              /\ published' = published
              /\ g \in readers']_vars

\* The part of C30 that holds: a bad line that is UTF-8 text is skipped and
\* the reader task goes on.
C30_TextLineSkipped ==
    [][\A g \in Gens :
          Consumes(g, {"blank", "notJson", "unknownType"}) =>
              /\ pending' = pending /\ ackbox' = ackbox
              /\ published' = published
              /\ g \in readers']_vars

\* ── Further claims about the session status engine (SpecStatus) ──────────

\* C32: for a tail of at least three entries determine_status_with_context
\* returns what determine_status returns; the look-back reclassification
\* changes no result, since determine_status never returns Working for a last
\* assistant message that holds no tool use and carries a stop reason.
C32_ContextAddsNothing ==
    /\ (context_status # None /\ Len(entries) >= 3) =>
            context_status = determine_status(entries)
    /\ ReclassifyNeverApplies

\* Both functions were called on three entries ending in two assistant
\* messages, the last without tool use and with a stop reason: both returned
\* WaitingForInput.
C32_Witness ==
    /\ Len(entries) = 3 /\ ConcludedAfterAssistant
    /\ status = "WaitingForInput" /\ context_status = "WaitingForInput"

\* ── Further claims about connections and feeds (SpecSocket) ──────────────

\* A command of connection t has been taken off the socket and its response
\* has not been sent.
Dispatching(t) == conn[t] = "open" /\ taken[t] > answered[t]

\* C33: on one connection, from the start of a command's dispatch until its
\* response frame is sent, no feed frame is sent and no feed receiver is read;
\* the only frame sent is the response (unless the connection ends first), so
\* what the feeds publish meanwhile is delivered after it.
C33_NoFeedFrameDuringDispatch ==
    [][\A t \in Tasks : Dispatching(t) =>
            \/ conn'[t] # "open"
            \/ /\ got'[t] = got[t] /\ cursor'[t] = cursor[t]
               /\ \/ out'[t] = out[t]
                  \/ answered'[t] = answered[t] + 1 /\ out'[t].feed = None]_vars

\* A command is being handled on an open connection while a message published
\* on one of its feeds waits in the receiver, not yet relayed.
C33_Witness ==
    \E t \in Tasks, f \in Feeds :
        /\ Dispatching(t) /\ pc[t] = "handling"
        /\ cursor[t][f] < published[f]
        /\ published[f] - cursor[t][f] <= FeedCap

\* ── Further claims about the bridge (SpecBridge) ─────────────────────────

HandlesAgree ==
    \/ child # 0 /\ stdin # 0 /\ reader_running
    \/ child = 0 /\ stdin = 0 /\ ~reader_running

\* C35: whenever the process guard is free, the stored process handle, the
\* stored stdin handle and the reader-running flag are all set or all clear;
\* hence every successful spawn finds the flag clear after its probe and starts
\* the reader task of the new process.
C35_HandlesAgreeReaderStarted ==
    /\ [](lock = 0 => HandlesAgree)
    /\ [][gen' # gen => (~ReaderFlagAfterProbe /\ gen' \in readers' /\ gen' \notin readers)]_vars

\* The process exited, the next command's probe cleared the three fields and
\* its spawn failed: the guard is free and all three are clear.
C35_Witness ==
    \E t \in Tasks :
        /\ pc[t] = "ret" /\ res[t] = "Err:Failed to spawn bridge"
        /\ gen = 1 /\ 1 \notin alive
        /\ lock = 0 /\ child = 0 /\ stdin = 0 /\ ~reader_running

\* ── Claims about the bridge's guards and its pipe (SpecGuards) ───────────

\* The byte sequence w is whole command lines, one after the other, with at
\* most the JSON text of one more line at its end.
WholeLines(w) ==
    \A k \in 1..Len(w) :
        /\ w[k].part = "newline" => (k > 1 /\ w[k - 1] = LineBytes(w[k].id)[1])
        /\ (w[k].part = "json" /\ k < Len(w)) => w[k + 1] = LineBytes(w[k].id)[2]

\* C31: with any callers running concurrently, what a process's stdin has
\* taken is whole command lines one after the other: no byte of another command
\* stands inside a line, every line is one command's, and a line begun and not
\* yet ended on a running process is the line of the caller holding the guard.
C31_LinesNeverInterleave ==
    \A g \in Gens :
        /\ WholeLines(wire[g])
        /\ \A k, l \in 1..Len(wire[g]) : (k # l /\ wire[g][k].part = "newline") =>
                                             wire[g][k] # wire[g][l]
        /\ (g \in alive /\ wire[g] # <<>> /\ wire[g][Len(wire[g])].part = "json") =>
               /\ lock \in Tasks /\ pc[lock] = "writing_rest"
               /\ id[lock] = wire[g][Len(wire[g])].id

\* One caller is in mid-line, holding the guard, while the other waits for the
\* guard with its own line to write; a whole line is on the wire already.
C31_Witness ==
    \E t, u \in Tasks, g \in Gens :
        /\ pc[t] = "writing_rest" /\ lock = t /\ pc[u] = "write"
        /\ stdin = g /\ g \in alive
        /\ wire[g] = <<LineBytes(id[t])[1]>>

\* Reader g has an Ack line parsed and not yet resolved.
AckAtHand(g) == g \in readers /\ outbuf[g] # <<>> /\ Head(outbuf[g]).type = "ack"

\* C36: the two guards never deadlock. A caller holds the pending-table guard
\* only inside its hold of the inner guard and can then finish its insert; a
\* reader holding the pending-table guard waits for nothing else and can
\* resolve its ack; so whoever holds the pending-table guard can release it,
\* and a reader with an ack at hand can take its next step or is waiting for a
\* holder that can, whatever the callers hold.
C36_GuardsNeverDeadlock ==
    /\ \A t \in Tasks : plock = t => (lock = t /\ ENABLED InsertPut(t))
    /\ \A g \in Gens : plock = ReaderOf(g) => ENABLED ReadAckResolve(g)
    /\ \A g \in Gens : AckAtHand(g) =>
          \/ ENABLED ReadAckLock(g)
          \/ ENABLED ReadAckResolve(g)
          \/ \E t \in Tasks : plock = t /\ ENABLED InsertPut(t)
          \/ \E h \in Gens : plock = ReaderOf(h) /\ ENABLED ReadAckResolve(h)

\* A caller holds the inner guard and waits for the pending-table guard, which
\* the reader holds with the ack of another caller that waits for it.
C36_Witness ==
    \E t, u \in Tasks, g \in Gens :
        /\ t # u /\ pc[t] = "insert_inner" /\ lock = t
        /\ plock = ReaderOf(g) /\ AckAtHand(g)
        /\ pc[u] = "await" /\ Head(outbuf[g]).id = id[u]

====
